---- MODULE Spec2Model ----
(***************************************************************************)
(* chrono_manager: partial time points (TimePoint), their comparison and   *)
(* time spans (TimeSpan), modelled from src/src/*.py.                      *)
(*                                                                         *)
(* The library is a set of pure functions over value objects.  Each        *)
(* specification draws the arguments of one call in its initial state      *)
(* (pc = "call") and one action per public operation applies it and        *)
(* records the outcome (pc = "done"): either a returned value or the       *)
(* Python exception that left the call.                                    *)
(*                                                                         *)
(* Conventions: an element is [unit, value]; Python's None for an integer  *)
(* is -1 (no unit value is negative), for a unit name or a sequence name   *)
(* the string "None", for a sequence of units <<>>.                        *)
(*                                                                         *)
(* utilityfuncs.py imports units_sequence and CompareSequnce, which        *)
(* units_constants.py and configs.py define as UNITS_SEQUENCE and          *)
(* CombinedSequnce; the model reads the two names as those definitions.    *)
(***************************************************************************)
EXTENDS Integers, Sequences, FiniteSets, TLC

VARIABLES pc, op, args, result, heap

vars == <<pc, op, args, result, heap>>

----------------------------------------------------------------------------
(* Outcomes of a call *)

Ok(v) == [raised |-> FALSE, exc |-> "", msg |-> "", value |-> v]

Raise(e, m) == [raised |-> TRUE, exc |-> e, msg |-> m, value |-> <<>>]

----------------------------------------------------------------------------
(* Objects that outlive a call *)

\* no TimePoint object: the fields a TimePoint keeps, not yet set
NoPointObject ==
    [created |-> FALSE, time_elements |-> <<>>, is_leap |-> FALSE,
     unit_values |-> [u \in {"YR", "MH", "WK", "WY", "DY", "HR", "ME", "SD"} |-> -1],
     point_type |-> "START"]

\* heap.elements[id] is the TimeElement object id, heap.input the list
\* object the caller holds (a list of ids), heap.point the TimePoint object
NoObjects == [elements |-> <<>>, input |-> <<>>, point |-> NoPointObject]

----------------------------------------------------------------------------
(* units_constants.py *)

START_YEAR == 1800

END_YEAR == 2199

GRE == <<"YR", "MH", "DY", "HR", "ME", "SD">>

ISO == <<"YR", "WK", "WY", "HR", "ME", "SD">>

UNITS == {"SD", "ME", "HR", "WY", "WK", "DY", "MH", "YR"}

\* day_allow_vals[month]["max"]: February is listed with 29 days
day_allow_vals_max == <<31, 29, 31, 30, 31, 30, 31, 31, 30, 31, 30, 31>>

RangeOf(s) == {s[i] : i \in 1..Len(s)}

SetMin(S) == CHOOSE x \in S : \A y \in S : x <= y

SetMax(S) == CHOOSE x \in S : \A y \in S : x >= y

\* tuple.index(unit), 1-based
UnitIndex(sequence, u) == CHOOSE i \in 1..Len(sequence) : sequence[i] = u

----------------------------------------------------------------------------
(* timeelement.py *)

\* the upper bound of the day taken one too high
validate_value_day_32(unit_name, value) ==
    CASE unit_name = "DY" -> 1 <= value /\ value <= 32
      [] unit_name = "YR" -> START_YEAR <= value /\ value <= END_YEAR
      [] unit_name = "WK" -> 1 <= value /\ value <= 53
      [] unit_name = "HR" -> 0 <= value /\ value <= 23
      [] unit_name \in {"ME", "SD"} -> 0 <= value /\ value <= 59
      [] unit_name = "MH" -> value \in 1..12
      [] unit_name = "WY" -> value \in 1..7

\* TimeElement._validate_value: TRUE when the value is accepted, FALSE when
\* ValueError is raised
validate_value(unit_name, value) ==
    CASE unit_name = "DY" -> 1 <= value /\ value <= 31
      [] unit_name = "YR" -> START_YEAR <= value /\ value <= END_YEAR
      [] unit_name = "WK" -> 1 <= value /\ value <= 53
      [] unit_name = "HR" -> 0 <= value /\ value <= 23
      [] unit_name \in {"ME", "SD"} -> 0 <= value /\ value <= 59
      [] unit_name = "MH" -> value \in 1..12
      [] unit_name = "WY" -> value \in 1..7

\* TimeElement(unit, value) for a valid value
TimeElement(unit_name, value) == [unit |-> unit_name, value |-> value]

\* TimeElement.get_max_value("DY", month), month an int or None
get_max_value_DY(month) ==
    IF month > 0 THEN day_allow_vals_max[month] ELSE 31

----------------------------------------------------------------------------
(* The calendar of Python's datetime module, which the source calls *)

isleap(y) == (y % 4 = 0 /\ y % 100 /= 0) \/ y % 400 = 0

days_in_month(y, m) ==
    IF m = 2 THEN (IF isleap(y) THEN 29 ELSE 28)
    ELSE IF m \in {4, 6, 9, 11} THEN 30 ELSE 31

days_before_year(y) ==
    (y - 1) * 365 + (y - 1) \div 4 - (y - 1) \div 100 + (y - 1) \div 400

RECURSIVE days_before_month(_, _)
days_before_month(y, m) ==
    IF m <= 1 THEN 0 ELSE days_before_month(y, m - 1) + days_in_month(y, m - 1)

\* date.toordinal()
ymd2ord(y, m, d) == days_before_year(y) + days_before_month(y, m) + d

\* date.isoweekday(): Monday is 1
isoweekday(y, m, d) == ((ymd2ord(y, m, d) + 6) % 7) + 1

\* the ordinal of the Monday that starts ISO week 1 of year y
isoweek1monday(y) ==
    LET firstday == ymd2ord(y, 1, 1)
        firstweekday == (firstday + 6) % 7
        week1monday == firstday - firstweekday
    IN IF firstweekday > 3 THEN week1monday + 7 ELSE week1monday

\* date(y, m, d).isocalendar()[1]
isocalendar_week(y, m, d) ==
    LET today == ymd2ord(y, m, d)
        w1 == isoweek1monday(y)
    IN IF today < w1
       THEN ((today - isoweek1monday(y - 1)) \div 7) + 1
       ELSE LET week == (today - w1) \div 7
            IN IF week >= 52 /\ today >= isoweek1monday(y + 1)
               THEN 1 ELSE week + 1

\* datetime(y, m, d, h, mi, s) raises ValueError unless this holds
valid_datetime(y, m, d, h, mi, s) ==
    /\ 1 <= y /\ y <= 9999
    /\ 1 <= m /\ m <= 12
    /\ 1 <= d /\ d <= days_in_month(y, m)
    /\ 0 <= h /\ h <= 23
    /\ 0 <= mi /\ mi <= 59
    /\ 0 <= s /\ s <= 59

----------------------------------------------------------------------------
(* utilityfuncs.py: lookups *)

HasUnit(elements, u) == \E i \in 1..Len(elements) : elements[i].unit = u

\* get_element_by_unit_from_elements: the first element of that unit
get_element_by_unit_from_elements(u, elements) ==
    elements[SetMin({i \in 1..Len(elements) : elements[i].unit = u})]

\* get_value_by_unit_from_elements(...)[0]: the value, or None (-1)
get_value_by_unit_from_elements(u, elements) ==
    IF HasUnit(elements, u)
    THEN get_element_by_unit_from_elements(u, elements).value
    ELSE -1

\* find_duplicate_units(elements) is non-empty
find_duplicate_units(elements) ==
    {elements[j].unit : j \in {k \in 1..Len(elements) :
        \E i \in 1..(k - 1) : elements[i].unit = elements[k].unit}}

\* get_elements_sequence: the first sequence of units_sequence (gre, then
\* iso) that holds every unit of the elements; None is <<>>
get_elements_sequence(elements) ==
    IF \A i \in 1..Len(elements) : elements[i].unit \in RangeOf(GRE) THEN GRE
    ELSE IF \A i \in 1..Len(elements) : elements[i].unit \in RangeOf(ISO) THEN ISO
    ELSE <<>>

\* what_is_sequence: matched_units keeps the elements' own order, so the
\* test is again that every unit belongs to the sequence
what_is_sequence(elements) ==
    IF elements = <<>> THEN "None"
    ELSE IF \A i \in 1..Len(elements) : elements[i].unit \in RangeOf(GRE) THEN "gre"
    ELSE IF \A i \in 1..Len(elements) : elements[i].unit \in RangeOf(ISO) THEN "iso"
    ELSE "None"

\* leap_years_between(start_year, end_year), as a set
leap_years_between(start_year, end_year) ==
    {y \in start_year..end_year : isleap(y)}

\* find_year_with_53_weeks(start_year, end_year=2100): year is in the list
\* returned, the years of the range whose 31 December lies in ISO week 53
in_find_year_with_53_weeks(year, start_year, end_year) ==
    /\ start_year <= year
    /\ year <= end_year
    /\ isocalendar_week(year, 12, 31) = 53

\* configs.YEARS_WITH_53_WEEKS: 28 December lies in ISO week 53
YEARS_WITH_53_WEEKS ==
    {y \in START_YEAR..END_YEAR : isocalendar_week(y, 12, 28) = 53}

----------------------------------------------------------------------------
(* utilityfuncs.py: the sequence resolver *)

\* sort_elements_by_sequence: final_elements (a placeholder, the unit name
\* in the source, is an element of value -1), missing_units, and whether the
\* first component is None
sort_elements_by_sequence(elements) ==
    LET sequence == get_elements_sequence(elements)
    IN IF elements = <<>> \/ sequence = <<>>
       THEN [final |-> <<>>, missing |-> <<>>, none |-> TRUE]
       ELSE LET idx == {UnitIndex(sequence, elements[i].unit) : i \in 1..Len(elements)}
                start_index == SetMin(idx)
                end_index == SetMax(idx)
                expected == SubSeq(sequence, start_index, end_index)
                units_in_elements == {elements[i].unit : i \in 1..Len(elements)}
                final == [k \in 1..Len(expected) |->
                            IF expected[k] \in units_in_elements
                            THEN get_element_by_unit_from_elements(expected[k], elements)
                            ELSE [unit |-> expected[k], value |-> -1]]
                missing == SelectSeq(expected, LAMBDA u : u \notin units_in_elements)
            IN [final |-> final, missing |-> missing, none |-> FALSE]

\* check_possibility_weekday_week(weekday, week) for week 53: the weekday
\* is passed as start_year of find_year_with_53_weeks, whose end_year keeps
\* its default 2100; year is in the list of possible years
in_possible_years(year, weekday) ==
    in_find_year_with_53_weeks(year, weekday, 2100)

\* check_possibility_weekday_week(weekday, week): Ok(possible); the years
\* are those of in_possible_years, or all years (None) when week is not 53;
\* a weekday of None makes range() raise TypeError
check_possibility_weekday_week(weekday, week) ==
    IF week /= 53 THEN Ok(TRUE)
    ELSE IF weekday = -1
    THEN Raise("TypeError", "'NoneType' object cannot be interpreted as an integer")
    ELSE Ok(\E y \in weekday..2100 : in_possible_years(y, weekday))

\* the leap test off by one (day > 29): 29 February passes in every year
check_validity_gre_day29(year, month, day) ==
    IF /\ day > 0
       /\ month > 0
       /\ ~(day > get_max_value_DY(month))
       /\ year > 0
       /\ ~isleap(year)
       /\ month = 2
       /\ day > 29
    THEN Raise("ValueError", "day is not valid for month in non leap year")
    ELSE Ok(TRUE)

\* check_elements_validity, "gre" branch: the ValueError for a day above the
\* month's maximum is built but not raised, and the leap check sits in the
\* else of that test
check_validity_gre(year, month, day) ==
    IF /\ day > 0
       /\ month > 0
       /\ ~(day > get_max_value_DY(month))
       /\ year > 0
       /\ ~isleap(year)
       /\ month = 2
       /\ day > 28
    THEN Raise("ValueError", "day is not valid for month in non leap year")
    ELSE Ok(TRUE)

\* check_elements_validity, "iso" branch
check_validity_iso(year, week, weekday) ==
    IF week = 53
    THEN LET checked(chk) ==
                 IF chk.raised THEN chk
                 ELSE IF ~chk.value
                 THEN Raise("ValueError", "The weekday in week is not valid")
                 ELSE IF year > 0 /\ ~in_possible_years(year, weekday)
                 THEN Raise("ValueError", "The year does not have 53 weeks")
                 ELSE Ok(TRUE)
         IN checked(check_possibility_weekday_week(weekday, week))
    ELSE Ok(TRUE)

\* check_elements_validity: Ok(TRUE) or the exception raised
check_elements_validity(elements) ==
    LET year == get_value_by_unit_from_elements("YR", elements)
        month == get_value_by_unit_from_elements("MH", elements)
        day == get_value_by_unit_from_elements("DY", elements)
        week == get_value_by_unit_from_elements("WK", elements)
        weekday == get_value_by_unit_from_elements("WY", elements)
        seq == what_is_sequence(elements)
    IN IF seq = "gre" THEN check_validity_gre(year, month, day)
       ELSE IF seq = "iso" THEN check_validity_iso(year, week, weekday)
       ELSE Raise("ValueError", "The elements are not in a valid sequence")

\* is_ordered_elements: Ok(TRUE) or the exception raised
is_ordered_elements(elements) ==
    LET ordered(sorted, valid) ==
            IF get_elements_sequence(elements) = <<>>
            THEN Raise("ValueError", "elements must be in a valid sequence")
            ELSE IF find_duplicate_units(elements) /= {}
            THEN Raise("ValueError", "elements must not have duplicate units")
            ELSE IF sorted.missing /= <<>>
            THEN Raise("ValueError", "elements have missing units")
            ELSE IF valid.raised
            THEN (IF valid.exc = "ValueError"
                  THEN Raise("ValueError", valid.msg) ELSE valid)
            ELSE IF sorted.none \/ sorted.final /= elements
            THEN Raise("ValueError", "elements must be sorted by sequence")
            ELSE Ok(TRUE)
    IN ordered(sort_elements_by_sequence(elements),
               check_elements_validity(elements))

\* is_elements_leap
is_elements_leap(elements) ==
    LET year == get_value_by_unit_from_elements("YR", elements)
        month == get_value_by_unit_from_elements("MH", elements)
        day == get_value_by_unit_from_elements("DY", elements)
    IN IF /\ month > 0
          /\ day > 0
          /\ ~valid_datetime(IF year > 0 THEN year ELSE 2000, month, day, 0, 0, 0)
       THEN FALSE
       ELSE IF year /= -1 THEN isleap(year)
       ELSE month = 2 /\ day = 29

\* find_scope_in_ordered_elements, for elements that is_ordered_elements
\* accepts: the unit before the first unit, or None
find_scope_in_ordered_elements(elements) ==
    LET sequence == get_elements_sequence(elements)
        index == UnitIndex(sequence, elements[1].unit)
    IN IF index = 1 THEN "None" ELSE sequence[index - 1]

\* find_ordered_elements_over_under_units, for ordered elements
find_ordered_elements_over_under_units(elements) ==
    LET sequence == get_elements_sequence(elements)
        elements_start_index == UnitIndex(sequence, elements[1].unit)
        elements_end_index == UnitIndex(sequence, elements[Len(elements)].unit)
    IN [O |-> SubSeq(sequence, 1, elements_start_index - 1),
        U |-> SubSeq(sequence, elements_end_index + 1, Len(sequence))]

----------------------------------------------------------------------------
(* timepoint.py: TimePoint *)

\* TimePoint._initialize_time_point
initialize_time_point(elements) ==
    LET initialized(ordered) ==
            IF ordered.raised
            THEN (IF ordered.exc = "ValueError"
                  THEN Raise("TimePointCreationError", ordered.msg)
                  ELSE ordered)
            ELSE Ok([time_elements |-> elements, point_type |-> "START"])
    IN initialized(is_ordered_elements(elements))

\* the test of missing_units left out
TimePoint_missing_unchecked(telements) ==
    LET created(sorted, initialize(_)) ==
            IF sorted.none \/ sorted.final = <<>>
            THEN Raise("TimePointArgumentError", "No valid elements found in the argument")
            ELSE initialize(sorted.final)
    IN created(sort_elements_by_sequence(telements), initialize_time_point)

\* TimePoint.__init__ from a list of elements
TimePoint(telements) ==
    LET created(sorted, initialize(_)) ==
            IF sorted.missing /= <<>>
            THEN Raise("TimePointArgumentError", "Missing units in argument")
            ELSE IF sorted.none \/ sorted.final = <<>>
            THEN Raise("TimePointArgumentError", "No valid elements found in the argument")
            ELSE initialize(sorted.final)
    IN created(sort_elements_by_sequence(telements), initialize_time_point)

----------------------------------------------------------------------------
(* Arguments drawn for a call *)

\* the longest arbitrary element list drawn
MaxLen == 3

\* valid elements (TimeElement accepts each) from which arbitrary lists,
\* sorted or not, with or without gaps and repeated units, are drawn
ElementPool ==
    {TimeElement("YR", 2023), TimeElement("YR", 2024),
     TimeElement("MH", 2), TimeElement("MH", 4),
     TimeElement("DY", 29), TimeElement("DY", 30), TimeElement("DY", 31),
     TimeElement("WK", 53), TimeElement("WY", 7), TimeElement("HR", 23)}

ArbitraryLists == UNION {[1..n -> ElementPool] : n \in 0..MaxLen}

\* every year of the supported range with the last days of February, and
\* with every weekday of weeks 52 and 53
YearSweepLists ==
    {<<TimeElement("YR", y), TimeElement("MH", 2), TimeElement("DY", d)>> :
        y \in START_YEAR..END_YEAR, d \in 28..29}
    \cup
    {<<TimeElement("YR", y), TimeElement("WK", w), TimeElement("WY", d)>> :
        y \in START_YEAR..END_YEAR, w \in 52..53, d \in 1..7}

PointInputs == ArbitraryLists \cup YearSweepLists

NoResult == Ok(<<>>)

----------------------------------------------------------------------------
(* Specification of TimePoint construction *)

InitPoint ==
    /\ pc = "call"
    /\ op = ""
    /\ args \in {[elements |-> l] : l \in PointInputs}
    /\ result = NoResult
    /\ heap = NoObjects

\* TimePoint(elements)
CreateTimePoint ==
    /\ pc = "call"
    /\ pc' = "done"
    /\ op' = "TimePoint"
    /\ result' = TimePoint(args.elements)
    /\ UNCHANGED <<args, heap>>

NextPoint == CreateTimePoint

Spec == InitPoint /\ [][NextPoint]_vars

----------------------------------------------------------------------------
(* Properties of TimePoint construction *)

UnitsOf(elements) == {elements[i].unit : i \in 1..Len(elements)}

NoRepeatedUnit(elements) == Cardinality(UnitsOf(elements)) = Len(elements)

\* the units are those of one run S[i..j] of the sequence S, in any order
ContiguousIn(S, elements) ==
    /\ elements /= <<>>
    /\ NoRepeatedUnit(elements)
    /\ \E i \in 1..Len(S) : \E j \in i..Len(S) :
          UnitsOf(elements) = {S[k] : k \in i..j}

\* some unit between the most and the least significant present unit of
\* the elements' sequence is absent
HasGap(elements) ==
    /\ elements /= <<>>
    /\ \E S \in {GRE, ISO} :
          /\ UnitsOf(elements) \subseteq RangeOf(S)
          /\ \E i \in 1..Len(S) : \E j \in i..Len(S) : \E k \in i..j :
                /\ S[i] \in UnitsOf(elements)
                /\ S[j] \in UnitsOf(elements)
                /\ S[k] \notin UnitsOf(elements)

ValueIn(elements, u) == get_value_by_unit_from_elements(u, elements)

\* the number of days of a month: February has 29 in a leap year and when
\* no year is given
MonthLength(year, month) ==
    IF month = 2
    THEN (IF year = -1 \/ (year % 4 = 0 /\ (year % 100 /= 0 \/ year % 400 = 0))
          THEN 29 ELSE 28)
    ELSE IF month \in {4, 6, 9, 11} THEN 30 ELSE 31

\* a year whose ISO calendar has 53 weeks: 1 January is a Thursday, or the
\* year is a leap year and 1 January is a Wednesday
LongIsoYear(y) ==
    \/ isoweekday(y, 1, 1) = 4
    \/ isoweekday(y, 1, 1) = 3 /\ MonthLength(y, 2) = 29

Created == pc = "done" /\ op = "TimePoint" /\ ~result.raised

Failed(e) == pc = "done" /\ result.raised /\ result.exc = e

\* C7: constructing a Gregorian Point whose day exceeds the number of days
\* of its month fails with TimePointCreationError.
C7_DayBeyondMonthRejected ==
    (/\ pc = "done"
     /\ op = "TimePoint"
     /\ ContiguousIn(GRE, args.elements)
     /\ {"MH", "DY"} \subseteq UnitsOf(args.elements)
     /\ ValueIn(args.elements, "DY") >
            MonthLength(ValueIn(args.elements, "YR"), ValueIn(args.elements, "MH")))
    => Failed("TimePointCreationError")

\* C8: a Point with MH=2 and DY=29 is constructible without a year and in
\* a leap year, and fails with TimePointCreationError in a year that is not
\* a leap year.
C8_LeapDay ==
    (/\ pc = "done"
     /\ op = "TimePoint"
     /\ ContiguousIn(GRE, args.elements)
     /\ ValueIn(args.elements, "MH") = 2
     /\ ValueIn(args.elements, "DY") = 29)
    => IF MonthLength(ValueIn(args.elements, "YR"), 2) = 29
       THEN /\ Created
            /\ ValueIn(result.value.time_elements, "MH") = 2
            /\ ValueIn(result.value.time_elements, "DY") = 29
            /\ ValueIn(result.value.time_elements, "YR") = ValueIn(args.elements, "YR")
       ELSE Failed("TimePointCreationError")

\* C8 happens: 29 February 1900 is refused, 1900 being no leap year
C8_Witness ==
    /\ Failed("TimePointCreationError")
    /\ op = "TimePoint"
    /\ args.elements = <<TimeElement("YR", 1900), TimeElement("MH", 2),
                         TimeElement("DY", 29)>>

\* C9: for every year of 1800..2199 and every weekday, an ISO Point with
\* that year and WK=53 is constructible if and only if the year has 53 ISO
\* weeks, and fails with TimePointCreationError otherwise.
C9_Week53IffLongYear ==
    (/\ pc = "done"
     /\ op = "TimePoint"
     /\ ContiguousIn(ISO, args.elements)
     /\ UnitsOf(args.elements) = {"YR", "WK", "WY"}
     /\ ValueIn(args.elements, "WK") = 53)
    => IF LongIsoYear(ValueIn(args.elements, "YR"))
       THEN Created
       ELSE Failed("TimePointCreationError")

\* C10: constructing a Point from an element list whose units are not
\* contiguous in their sequence fails with TimePointArgumentError.
C10_GapRejected ==
    (pc = "done" /\ op = "TimePoint" /\ HasGap(args.elements))
    => Failed("TimePointArgumentError")

\* C10 happens: a year and a day without the month
C10_Witness ==
    /\ Failed("TimePointArgumentError")
    /\ op = "TimePoint"
    /\ args.elements = <<TimeElement("YR", 2023), TimeElement("DY", 30)>>

\* C11: constructing a Point from an element list that holds two elements
\* of the same unit fails with an error; no Point is obtained by dropping
\* one of several same-unit elements.
C11_DuplicateUnitRejected ==
    (pc = "done" /\ op = "TimePoint" /\ ~NoRepeatedUnit(args.elements))
    => result.raised

----------------------------------------------------------------------------
(* utilityfuncs.py: the comparator *)

\* a value the comparator returns: an int, or the dict of years
Definite(n) == [kind |-> "int", int |-> n,
                greater |-> <<>>, less |-> <<>>, equal |-> <<>>]

PerYear(g, l, e) == [kind |-> "dict", int |-> 0,
                     greater |-> g, less |-> l, equal |-> e]

\* a datetime: its proleptic ordinal day and second of the day; none is
\* Python's None
DateTime(ord, h, mi, s) == [none |-> FALSE, ord |-> ord, sec |-> h * 3600 + mi * 60 + s]

NoDateTime == [none |-> TRUE, ord |-> 0, sec |-> 0]

\* datetime(year, month, day, hour, minute, second)
datetime(y, m, d, h, mi, s) ==
    IF valid_datetime(y, m, d, h, mi, s)
    THEN Ok(DateTime(ymd2ord(y, m, d), h, mi, s))
    ELSE Raise("ValueError", "day is out of range for month")

\* iso_to_gregorian(year, week, weekday, hour, minute, second)
iso_to_gregorian(year, week, weekday, hour, minute, second) ==
    IF \/ week < 1 \/ week > 53
       \/ weekday < 1 \/ weekday > 7
       \/ hour < 0 \/ hour > 23
       \/ minute < 0 \/ minute > 59
       \/ second < 0 \/ second > 59
    THEN Ok(NoDateTime)
    ELSE IF ~valid_datetime(year, 1, 4, 0, 0, 0)
    THEN Raise("ValueError", "year is out of range")
    ELSE LET first_day == ymd2ord(year, 1, 4)
             start_of_year == first_day - (isoweekday(year, 1, 4) - 1)
             target_date == start_of_year + 7 * (week - 1) + (weekday - 1)
             same_year == /\ ymd2ord(year, 1, 1) <= target_date
                          /\ target_date <= ymd2ord(year, 12, 31)
         IN IF target_date > ymd2ord(9999, 12, 31)
            THEN Raise("OverflowError", "date value out of range")
            ELSE IF week = 53 /\ ~same_year
            THEN Ok(NoDateTime)
            ELSE Ok(DateTime(target_date, hour, minute, second))

\* the datetime of one side of compare_two_datetimes_ints:
\* iso_to_gregorian(*element_ints) takes at most six arguments;
\* datetime(...) is built from element_ints[:6]
side_datetime(element_ints, is_iso) ==
    IF is_iso
    THEN (IF Len(element_ints) > 6
          THEN Raise("TypeError", "iso_to_gregorian() takes from 2 to 6 positional arguments")
          ELSE iso_to_gregorian(element_ints[1], element_ints[2], element_ints[3],
                                element_ints[4], element_ints[5], element_ints[6]))
    ELSE datetime(element_ints[1], element_ints[2], element_ints[3],
                  element_ints[4], element_ints[5], element_ints[6])

\* compare_two_datetimes_ints
compare_two_datetimes_ints(element_ints1, is_iso1, element_ints2, is_iso2) ==
    IF Len(element_ints1) < 6 \/ Len(element_ints2) < 6
    THEN Ok(Definite(-2))
    ELSE LET compared(dt1, dt2) ==
                 IF dt1.raised THEN dt1
                 ELSE IF dt2.raised THEN dt2
                 ELSE IF dt1.value.none \/ dt2.value.none THEN Ok(Definite(-2))
                 ELSE IF \/ dt1.value.ord > dt2.value.ord
                         \/ dt1.value.ord = dt2.value.ord /\ dt1.value.sec > dt2.value.sec
                 THEN Ok(Definite(1))
                 ELSE IF \/ dt1.value.ord < dt2.value.ord
                         \/ dt1.value.ord = dt2.value.ord /\ dt1.value.sec < dt2.value.sec
                 THEN Ok(Definite(-1))
                 ELSE Ok(Definite(0))
         IN compared(side_datetime(element_ints1, is_iso1),
                     side_datetime(element_ints2, is_iso2))

\* unit_name == element for a unit name (str) of a sequence and a
\* TimeElement: TimeElement.__eq__ answers NotImplemented for an operand
\* that is no TimeElement, str.__eq__ likewise, and the two objects are not
\* the same object
str_eq_element(unit_name, element) == FALSE

\* elements_sequence.index(element): the first position holding an equal
\* entry (0-based), or ValueError
sequence_index(sequence, element) ==
    IF \E i \in 1..Len(sequence) : str_eq_element(sequence[i], element)
    THEN Ok(SetMin({i \in 1..Len(sequence) :
                      str_eq_element(sequence[i], element)}) - 1)
    ELSE Raise("ValueError", "tuple.index(x): x not in tuple")

\* are_ordered_elements_comparable: Ok(bool) or the exception raised; the
\* position of the last unit is looked up with the last ELEMENT,
\* elements_sequence.index(elements[-1])
are_ordered_elements_comparable(elements1, elements2) ==
    LET same_depth(elements1_last_unit_index, elements2_last_unit_index) ==
            IF elements1_last_unit_index.raised THEN elements1_last_unit_index
            ELSE IF elements2_last_unit_index.raised THEN elements2_last_unit_index
            ELSE Ok(/\ find_scope_in_ordered_elements(elements1)
                       = find_scope_in_ordered_elements(elements2)
                    /\ elements1_last_unit_index.value
                       = elements2_last_unit_index.value)
        comparable(ordered1, ordered2) ==
            IF ordered1.raised
            THEN (IF ordered1.exc = "ValueError"
                  THEN Raise("ValueError", ordered1.msg) ELSE ordered1)
            ELSE IF ordered2.raised
            THEN (IF ordered2.exc = "ValueError"
                  THEN Raise("ValueError", ordered2.msg) ELSE ordered2)
            ELSE same_depth(sequence_index(get_elements_sequence(elements1),
                                           elements1[Len(elements1)]),
                            sequence_index(get_elements_sequence(elements2),
                                           elements2[Len(elements2)]))
    IN comparable(is_ordered_elements(elements1), is_ordered_elements(elements2))

\* complete_ordered_elements, for ordered elements: one entry per unit of
\* the sequence; "O" is -1 and "U" is -2
complete_ordered_elements(elements) ==
    LET sequence == get_elements_sequence(elements)
        over_under_units == find_ordered_elements_over_under_units(elements)
    IN [k \in 1..Len(sequence) |->
          IF sequence[k] \in RangeOf(over_under_units.O) THEN -1
          ELSE IF HasUnit(elements, sequence[k])
          THEN get_value_by_unit_from_elements(sequence[k], elements)
          ELSE -2]

\* _set_complete_elements_values: a placeholder takes the default of its
\* position
set_complete_elements_values(complete_elements, default_unit_values) ==
    [k \in 1..Len(complete_elements) |->
        IF complete_elements[k] < 0 THEN default_unit_values[k]
        ELSE complete_elements[k]]

\* is_iso_greg_compare_consistent as compare_two_ordered_comparable_elements
\* calls it: iso_week and iso_weekday are the (value, index) tuples that
\* get_value_by_unit_from_elements returns, so the text given to
\* datetime.strptime never matches "%G %V %u"
is_iso_greg_compare_consistent_of_tuples ==
    Raise("ValueError", "time data does not match format '%G %V %u'")

\* one comparison of the two completed lists with a year put in place of
\* every placeholder year
compare_in_year(complete1, is_iso1, complete2, is_iso2, year) ==
    compare_two_datetimes_ints(
        set_complete_elements_values(complete1, <<year, 1, 1, 0, 0, 0>>), is_iso1,
        set_complete_elements_values(complete2, <<year, 1, 1, 0, 0, 0>>), is_iso2)

\* the loop over set_years: a year goes to "greater" on 1, to "less" on -1
\* and to "equal" on any other result; an exception ends the loop
compared_years(complete1, is_iso1, complete2, is_iso2, years) ==
    LET collected(results) ==
            LET raising == {k \in 1..Len(years) : results[k].raised}
                key(k) == IF results[k].value.int = 1 THEN "greater"
                          ELSE IF results[k].value.int = -1 THEN "less"
                          ELSE "equal"
                appended(c) ==
                    LET at == SelectSeq([k \in 1..Len(years) |-> k],
                                        LAMBDA k : key(k) = c)
                    IN [j \in 1..Len(at) |-> years[at[j]]]
            IN IF raising /= {} THEN results[SetMin(raising)]
               ELSE Ok(PerYear(appended("greater"), appended("less"),
                               appended("equal")))
    IN collected([k \in 1..Len(years) |->
                    compare_in_year(complete1, is_iso1, complete2, is_iso2,
                                    years[k])])

\* compare_two_ordered_comparable_elements, lines 1209-1345: what runs once
\* are_ordered_elements_comparable has answered True
compare_ordered_body(elements1, elements2, leap_year) ==
    LET is_leap_element1 == is_elements_leap(elements1) \/ leap_year
        is_leap_element2 == is_elements_leap(elements2) \/ leap_year
        compare_in_leap == is_leap_element1 \/ is_leap_element2 \/ leap_year
        \* False for an ISO list and True otherwise
        is_iso_elements1 == what_is_sequence(elements1) /= "iso"
        is_iso_elements2 == what_is_sequence(elements2) /= "iso"
        compare_type == IF is_iso_elements1 /= is_iso_elements2 THEN "ISO_GRE"
                        ELSE IF is_iso_elements1 THEN "ISO" ELSE "GRE"
        complete_elements1 == complete_ordered_elements(elements1)
        complete_elements2 == complete_ordered_elements(elements2)
        \* wk_value2 == 53 compares a tuple with 53: iso_available_years is
        \* never bound.  set_years is rebuilt from temp_years, which only
        \* the ISO_GRE branch fills
        set_years == <<>>
        scope == find_scope_in_ordered_elements(elements1)
        zipped == 1..(IF Len(elements1) < Len(elements2)
                      THEN Len(elements1) ELSE Len(elements2))
        differ == {k \in zipped : elements1[k].value /= elements2[k].value}
    IN IF compare_type = "ISO"
       THEN Raise("UnboundLocalError",
                  "cannot access local variable 'iso_available_years'")
       ELSE IF compare_type = "ISO_GRE"
       THEN is_iso_greg_compare_consistent_of_tuples
       ELSE IF scope = "None"
       THEN compare_two_datetimes_ints(
                set_complete_elements_values(complete_elements1, <<1, 1, 1, 0, 0, 0>>),
                is_iso_elements1,
                set_complete_elements_values(complete_elements2, <<1, 1, 1, 0, 0, 0>>),
                is_iso_elements2)
       ELSE IF scope = "YR"
       THEN (IF Len(set_years) = 1
             THEN compare_in_year(complete_elements1, is_iso_elements1,
                                  complete_elements2, is_iso_elements2, set_years[1])
             ELSE compared_years(complete_elements1, is_iso_elements1,
                                 complete_elements2, is_iso_elements2, set_years))
       ELSE IF differ = {} THEN Ok(Definite(0))
       ELSE IF elements1[SetMin(differ)].value > elements2[SetMin(differ)].value
       THEN Ok(Definite(1))
       ELSE Ok(Definite(-1))

\* compare_two_ordered_comparable_elements
compare_two_ordered_comparable_elements(elements1, elements2, leap_year) ==
    LET compared(comparable, body(_, _, _)) ==
            IF comparable.raised
            THEN (IF comparable.exc = "ValueError"
                  THEN Raise("ValueError", comparable.msg) ELSE comparable)
            ELSE IF ~comparable.value
            THEN Raise("ValueError", "elements1 and elements2 must be ordered and matchable")
            ELSE body(elements1, elements2, leap_year)
    IN compared(are_ordered_elements_comparable(elements1, elements2),
                compare_ordered_body)

\* TimePoint.scope
scope_of(point) == find_scope_in_ordered_elements(point.time_elements)

\* TimePoint.compare_points
compare_points(point1, point2) ==
    IF scope_of(point1) /= scope_of(point2)
    THEN Raise("TimePointNotComparableError", "TimePoint instances are not comparable")
    ELSE LET result_of(compared) ==
                 IF compared.raised /\ compared.exc = "ValueError"
                 THEN Raise("TimePointNotComparableError",
                            "TimePoint instances are not comparable")
                 ELSE compared
         IN result_of(compare_two_ordered_comparable_elements(
                          point1.time_elements, point2.time_elements, FALSE))

----------------------------------------------------------------------------
(* Specification of the comparator *)

\* lists of six integers around the turn of a year with week 53 (2020) and
\* of years without (2018, whose 31 December is a Monday, and 2021), a list
\* that is too short and one that is too long
IntLists ==
    {<<y, a, b, 0, 0, s>> : y \in {2018, 2020, 2021}, a \in {1, 12, 53},
                            b \in {1, 7, 28}, s \in {0, 1}}
    \cup {<<2023, 8>>, <<2023, 1, 1, 0, 0, 0, 0>>, <<2023, 2, 29, 0, 0, 0>>}

\* element lists: Gregorian and ISO, with and without a year, and three
\* that is_ordered_elements refuses
CompareLists ==
    {<<TimeElement("YR", 2023), TimeElement("MH", 8), TimeElement("DY", 15)>>,
     <<TimeElement("YR", 2023), TimeElement("MH", 8), TimeElement("DY", 16)>>,
     <<TimeElement("YR", 2020), TimeElement("MH", 2), TimeElement("DY", 29)>>,
     <<TimeElement("YR", 2020), TimeElement("MH", 2), TimeElement("DY", 28)>>,
     <<TimeElement("YR", 2023)>>,
     <<TimeElement("YR", 2024)>>,
     <<TimeElement("MH", 3), TimeElement("DY", 4)>>,
     <<TimeElement("MH", 5), TimeElement("DY", 4)>>,
     <<TimeElement("DY", 15), TimeElement("HR", 10)>>,
     <<TimeElement("YR", 2020), TimeElement("WK", 53), TimeElement("WY", 1)>>,
     <<TimeElement("YR", 2021), TimeElement("WK", 1), TimeElement("WY", 1)>>,
     <<TimeElement("YR", 2020), TimeElement("WK", 5), TimeElement("WY", 3)>>,
     <<TimeElement("WK", 10), TimeElement("WY", 2)>>,
     <<TimeElement("WK", 12), TimeElement("WY", 2)>>,
     <<TimeElement("DY", 15), TimeElement("MH", 8)>>,
     <<TimeElement("YR", 2023), TimeElement("DY", 1)>>,
     <<>>}

\* the TimePoints that can be constructed from those lists
ComparePoints ==
    {TimePoint(l).value : l \in {x \in CompareLists : ~TimePoint(x).raised}}

InitCompare ==
    /\ pc = "call"
    /\ op = ""
    /\ result = NoResult
    /\ heap = NoObjects
    /\ \/ args \in [kind : {"ints"}, element_ints1 : IntLists, is_iso1 : BOOLEAN,
                    element_ints2 : IntLists, is_iso2 : BOOLEAN]
       \/ args \in [kind : {"elements"}, elements1 : CompareLists,
                    elements2 : CompareLists, leap_year : BOOLEAN]
       \/ args \in [kind : {"points"}, point1 : ComparePoints, point2 : ComparePoints]

\* compare_two_datetimes_ints(element_ints1, is_iso1, element_ints2, is_iso2)
CompareTwoDatetimesInts ==
    /\ pc = "call"
    /\ args.kind = "ints"
    /\ pc' = "done"
    /\ op' = "compare_two_datetimes_ints"
    /\ result' = compare_two_datetimes_ints(args.element_ints1, args.is_iso1,
                                            args.element_ints2, args.is_iso2)
    /\ UNCHANGED <<args, heap>>

\* compare_two_ordered_comparable_elements(elements1, elements2, leap_year)
CompareTwoOrderedComparableElements ==
    /\ pc = "call"
    /\ args.kind = "elements"
    /\ pc' = "done"
    /\ op' = "compare_two_ordered_comparable_elements"
    /\ result' = compare_two_ordered_comparable_elements(
                     args.elements1, args.elements2, args.leap_year)
    /\ UNCHANGED <<args, heap>>

\* TimePoint.compare_points(point1, point2)
CallComparePoints ==
    /\ pc = "call"
    /\ args.kind = "points"
    /\ pc' = "done"
    /\ op' = "compare_points"
    /\ result' = compare_points(args.point1, args.point2)
    /\ UNCHANGED <<args, heap>>

NextCompare ==
    \/ CompareTwoDatetimesInts
    \/ CompareTwoOrderedComparableElements
    \/ CallComparePoints

SpecCompare == InitCompare /\ [][NextCompare]_vars

----------------------------------------------------------------------------
(* Properties of the comparator *)

ValueOr(elements, u, default) ==
    IF HasUnit(elements, u) THEN ValueIn(elements, u) ELSE default

Sign(n) == IF n > 0 THEN 1 ELSE IF n < 0 THEN -1 ELSE 0

\* the instant that a date of the Gregorian calendar or of the ISO week
\* calendar and a time of day denote: the day counted from the start of
\* year 1 and the second of that day
GregorianInstant(y, m, d, h, mi, s) ==
    [day |-> ymd2ord(y, m, d), sec |-> h * 3600 + mi * 60 + s]

IsoInstant(y, w, wd, h, mi, s) ==
    [day |-> isoweek1monday(y) + 7 * (w - 1) + (wd - 1),
     sec |-> h * 3600 + mi * 60 + s]

\* 1, 0 or -1 as instant a is later than, equal to or earlier than b
Order(a, b) ==
    IF a.day /= b.day THEN Sign(a.day - b.day) ELSE Sign(a.sec - b.sec)

\* the instant of an element list that holds a year, finer units that are
\* absent taken at their minimum
InstantOf(elements) ==
    IF HasUnit(elements, "WK") \/ HasUnit(elements, "WY")
    THEN IsoInstant(ValueIn(elements, "YR"), ValueOr(elements, "WK", 1),
                    ValueOr(elements, "WY", 1), ValueOr(elements, "HR", 0),
                    ValueOr(elements, "ME", 0), ValueOr(elements, "SD", 0))
    ELSE GregorianInstant(ValueIn(elements, "YR"), ValueOr(elements, "MH", 1),
                          ValueOr(elements, "DY", 1), ValueOr(elements, "HR", 0),
                          ValueOr(elements, "ME", 0), ValueOr(elements, "SD", 0))

\* a valid ordered Point: one run of a sequence in order, which can be
\* constructed as a TimePoint
ValidOrdered(elements) ==
    /\ \/ ContiguousIn(GRE, elements)
       \/ ContiguousIn(ISO, elements)
    /\ ~TimePoint(elements).raised
    /\ TimePoint(elements).value.time_elements = elements

\* the position in its sequence of the last unit of the elements
LastDepth(elements) ==
    UnitIndex(get_elements_sequence(elements), elements[Len(elements)].unit)

\* comparable lists: both valid ordered Points that end at the same depth
\* and have the same scope
Comparable(elements1, elements2) ==
    /\ ValidOrdered(elements1)
    /\ ValidOrdered(elements2)
    /\ LastDepth(elements1) = LastDepth(elements2)
    /\ elements1[1].unit = elements2[1].unit

Returned(n) == pc = "done" /\ ~result.raised /\ result = Ok(Definite(n))

\* C3: for two comparable element lists that both hold a year,
\* compare_two_ordered_comparable_elements returns 1, 0 or -1 as the
\* instant of the first list is later than, equal to or earlier than the
\* instant of the second.
C3_DefiniteByInstant ==
    (/\ pc = "done"
     /\ op = "compare_two_ordered_comparable_elements"
     /\ Comparable(args.elements1, args.elements2)
     /\ HasUnit(args.elements1, "YR")
     /\ HasUnit(args.elements2, "YR"))
    => Returned(Order(InstantOf(args.elements1), InstantOf(args.elements2)))

\* C4: for comparable Points with a definite comparison, compare(a, b) is 1
\* exactly when compare(b, a) is -1, and compare(a, a) is 0.
C4_AntisymmetricReflexive ==
    (pc = "done" /\ op = "compare_points")
    => /\ (result = Ok(Definite(1)))
            <=> (compare_points(args.point2, args.point1) = Ok(Definite(-1)))
       /\ (/\ args.point1 = args.point2
           /\ HasUnit(args.point1.time_elements, "YR"))
            => Returned(0)

\* Neither compare_two_ordered_comparable_elements nor compare_points ever
\* returns: every call ends in an exception, so no definite and no per-year
\* result exists.
ComparatorAlwaysRaises ==
    (pc = "done" /\ op \in {"compare_two_ordered_comparable_elements",
                            "compare_points"})
    => result.raised

\* the day of week 53 of year y, 52 weeks after the Monday of week 1, lies
\* beyond 31 December of y
Week53DayAfterYear(y, wd) ==
    isoweek1monday(y) + 7 * 52 + (wd - 1) > days_before_year(y + 1)

\* an ISO side that is not converted to a datetime: a field out of range,
\* or a day of week 53 that lies in the next calendar year
IsoUnresolvable(element_ints) ==
    \/ element_ints[2] \notin 1..53
    \/ element_ints[3] \notin 1..7
    \/ element_ints[4] \notin 0..23
    \/ element_ints[5] \notin 0..59
    \/ element_ints[6] \notin 0..59
    \/ element_ints[2] = 53 /\ Week53DayAfterYear(element_ints[1], element_ints[3])

SideInstant(element_ints, is_iso) ==
    IF is_iso
    THEN IsoInstant(element_ints[1], element_ints[2], element_ints[3],
                    element_ints[4], element_ints[5], element_ints[6])
    ELSE GregorianInstant(element_ints[1], element_ints[2], element_ints[3],
                          element_ints[4], element_ints[5], element_ints[6])

TooShort == Len(args.element_ints1) < 6 \/ Len(args.element_ints2) < 6

SomeSideUnresolvable ==
    \/ args.is_iso1 /\ IsoUnresolvable(args.element_ints1)
    \/ args.is_iso2 /\ IsoUnresolvable(args.element_ints2)

\* C6 as stated: every integer the comparator returns is -1, 0 or 1, and
\* an unresolvable input raises an error instead of yielding a sentinel
\* value.
C6_NoSentinel ==
    pc = "done"
    => /\ (~result.raised /\ result.value.kind = "int")
            => result.value.int \in {-1, 0, 1}
       /\ (op = "compare_two_datetimes_ints" /\ (TooShort \/ SomeSideUnresolvable))
            => result.raised

\* What the code does instead: every integer the comparator returns is -2,
\* -1, 0 or 1.  compare_two_datetimes_ints returns the sentinel -2, raising
\* nothing, when a list has fewer than six values, and otherwise returns -2
\* exactly when an ISO side is not converted (a field out of range, or a
\* day of week 53 that lies in the next calendar year, which is a valid ISO
\* date); any other result it returns is 1, 0 or -1 by the order of the
\* two instants.
SentinelMinusTwoExactly ==
    pc = "done"
    => /\ (~result.raised /\ result.value.kind = "int")
            => result.value.int \in {-2, -1, 0, 1}
       /\ op = "compare_two_datetimes_ints"
            => /\ TooShort => Returned(-2)
               /\ (~TooShort /\ ~result.raised)
                    => IF SomeSideUnresolvable THEN Returned(-2)
                       ELSE Returned(Order(
                                SideInstant(args.element_ints1, args.is_iso1),
                                SideInstant(args.element_ints2, args.is_iso2)))

\* week 53 of 2021, a year of 52 weeks, against a Gregorian date yields -2
SentinelReturned ==
    /\ Returned(-2)
    /\ op = "compare_two_datetimes_ints"
    /\ args.element_ints1 = <<2021, 53, 1, 0, 0, 0>>
    /\ args.is_iso1
    /\ args.element_ints2 = <<2021, 12, 28, 0, 0, 0>>
    /\ ~args.is_iso2

----------------------------------------------------------------------------
(* timepoint.py: the properties of a TimePoint that a TimeSpan reads *)

\* Python's None where a TimePoint is expected
NonePoint == [time_elements |-> <<>>, point_type |-> "None"]

\* TimePoint.is_iso
is_iso(point) == what_is_sequence(point.time_elements) = "iso"

\* TimePoint.is_leap
is_leap(point) == is_elements_leap(point.time_elements)

\* a list of years, or None (every year)
Years(S) == [none |-> FALSE, years |-> S]

AllYears == [none |-> TRUE, years |-> {}]

\* TimePoint.available_years
available_years(point) ==
    IF is_iso(point) /\ get_value_by_unit_from_elements("WK", point.time_elements) = 53
    THEN Years(YEARS_WITH_53_WEEKS)
    ELSE IF is_leap(point) THEN Years(leap_years_between(START_YEAR, END_YEAR))
    ELSE AllYears

\* find_intersection: None is the universal set
find_intersection(intlist1, intlist2) ==
    IF intlist1.none /\ intlist2.none THEN AllYears
    ELSE IF intlist1.none THEN intlist2
    ELSE IF intlist2.none THEN intlist1
    ELSE Years(intlist1.years \cap intlist2.years)

\* the values of start_filled / end_filled with every str replaced by None:
\* None for each over unit, the values of the elements, and the tail of
\* the array from that position on
filled_values(point, array) ==
    LET over_units == find_ordered_elements_over_under_units(point.time_elements).O
        filled == [k \in 1..Len(over_units) |-> -1]
                  \o [k \in 1..Len(point.time_elements) |-> point.time_elements[k].value]
    IN filled \o SubSeq(array, Len(filled) + 1, Len(array))

\* TimePoint.start_filled
start_filled(point) == filled_values(point, <<1, 1, 1, 0, 0, 0>>)

\* TimePoint.end_filled
end_filled(point) == filled_values(point, <<1, 12, 1, 23, 59, 59>>)

\* units_vlaues_to_ordered_elements(*values): eight positional parameters
\* (year, month, day, hour, minute, second, weekday, week) without
\* defaults; a value that is not None is made a TimeElement under the
\* parameter's name ("year", ...), which is no unit of the registry
units_vlaues_to_ordered_elements(values) ==
    IF Len(values) < 8
    THEN Raise("TypeError", "units_vlaues_to_ordered_elements() missing required positional argument")
    ELSE IF Len(values) > 8
    THEN Raise("TypeError", "units_vlaues_to_ordered_elements() takes 8 positional arguments")
    ELSE IF \E k \in 1..Len(values) : values[k] /= -1
    THEN Raise("ValueError", "Invalid unit name")
    ELSE Ok(<<>>)

\* start_point / end_point: the filled values, then is_iso (a bool, which
\* is an int), are passed as positional arguments
point_of_filled(point, filled) ==
    LET point_of(elements, created(_)) ==
            IF elements.raised THEN elements ELSE created(elements.value)
    IN point_of(units_vlaues_to_ordered_elements(
                    Append(filled, IF is_iso(point) THEN 1 ELSE 0)),
                TimePoint)

\* TimePoint.start_point
start_point(point) == point_of_filled(point, start_filled(point))

\* TimePoint.end_point
end_point(point) == point_of_filled(point, end_filled(point))

START_SCOPE_ELEMENTS_GRE ==
    <<TimeElement("YR", START_YEAR), TimeElement("MH", 1), TimeElement("DY", 1),
      TimeElement("HR", 0), TimeElement("ME", 0), TimeElement("SD", 0)>>

START_SCOPE_ELEMENTS_ISO ==
    <<TimeElement("YR", START_YEAR), TimeElement("WK", 1), TimeElement("WY", 1),
      TimeElement("HR", 0), TimeElement("ME", 0), TimeElement("SD", 0)>>

END_SCOPE_ELEMENTS_GRE ==
    <<TimeElement("YR", END_YEAR), TimeElement("MH", 12), TimeElement("DY", 31),
      TimeElement("HR", 23), TimeElement("ME", 59), TimeElement("SD", 59)>>

END_SCOPE_ELEMENTS_ISO ==
    <<TimeElement("YR", END_YEAR), TimeElement("WK", 53), TimeElement("WY", 7),
      TimeElement("HR", 23), TimeElement("ME", 59), TimeElement("SD", 59)>>

\* the 0-based index from which the scope elements are taken
scope_index(point) ==
    IF scope_of(point) = "None" THEN 0
    ELSE UnitIndex(get_elements_sequence(point.time_elements), scope_of(point)) - 1

\* TimePoint.start_point_in_scope
start_point_in_scope(point) ==
    TimePoint(SubSeq(IF is_iso(point) THEN START_SCOPE_ELEMENTS_ISO
                     ELSE START_SCOPE_ELEMENTS_GRE, scope_index(point) + 1, 6))

\* TimePoint.end_point_in_scope
end_point_in_scope(point) ==
    TimePoint(SubSeq(IF is_iso(point) THEN END_SCOPE_ELEMENTS_ISO
                     ELSE END_SCOPE_ELEMENTS_GRE, scope_index(point) + 1, 6))

----------------------------------------------------------------------------
(* timespan.py: TimeSpan *)

\* the TimeSpan built once both filled points exist, or the first
\* exception raised while they are computed (start before end)
span_of(start, end, start_edge, end_edge, span_type, years) ==
    IF start.raised THEN start
    ELSE IF end.raised THEN end
    ELSE Ok([start |-> start.value, end |-> end.value,
             start_edge |-> start_edge, end_edge |-> end_edge,
             type |-> span_type, available_years |-> years])

\* start_point if the edge is EdgeType.START, else end_point
edge_point(point, edge) ==
    point_of_filled(point, IF edge = "START" THEN start_filled(point)
                           ELSE end_filled(point))

\* TimeSpan.__init__, lines 104-139: end is None
one_point_span(start, start_edge, span_type) ==
    LET given == IF start_edge = "START" THEN "START" ELSE "END"
        span_on(edge, scope_start, scope_end) ==
            CASE span_type = "BETWEEN" ->
                    IF start_edge = "END"
                    THEN Raise("TimeSpanCreateArgumentError",
                               "start_edge cannot be 'EdgeType.END'")
                    ELSE span_of(edge["START"], edge["END"], "START", "END",
                                 span_type, available_years(start))
              [] span_type = "AFTER" ->
                    span_of(edge[given], scope_end, start_edge, "END",
                            span_type, available_years(start))
              [] span_type = "BEFORE" ->
                    span_of(scope_start, edge[given], "START", start_edge,
                            span_type, available_years(start))
    IN span_on([of \in {"START", "END"} |-> edge_point(start, of)],
               start_point_in_scope(start), end_point_in_scope(start))

\* TimeSpan.__init__, lines 140-194: start and end are given
two_point_span(start, start_edge, end, end_edge) ==
    LET start_edge_ == IF start_edge = "None" THEN "START" ELSE start_edge
        end_edge_ == IF end_edge = "None" THEN "END" ELSE end_edge
        between(edge, years) ==
            span_of(edge["start"], edge["end"], start_edge_, end_edge_, "BETWEEN", years)
        span_on(compared, edge_of(_, _)) ==
            IF compared.raised
            THEN (IF compared.exc = "TimePointNotComparableError"
                  THEN Raise("TimeSpanCreateArgumentError", compared.msg)
                  ELSE compared)
            ELSE IF compared.value = Definite(0)
            THEN Raise("TimeSpanCreateArgumentError", "start and end are equal; there is no span")
            ELSE IF compared.value = Definite(-1)
            THEN Raise("TimeSpanCreateArgumentError", "start is greater than end")
            ELSE IF compared.value = Definite(-2)
            THEN Raise("TimeSpanCreateArgumentError", "start and end are not comparable")
            ELSE IF compared.value = Definite(1) \/ compared.value.kind = "dict"
            THEN between([of \in {"start", "end"} |->
                             edge_of(IF of = "start" THEN start ELSE end,
                                     IF of = "start" THEN start_edge_ ELSE end_edge_)],
                         IF compared.value.kind = "dict"
                         THEN Years(RangeOf(compared.value.greater)) ELSE AllYears)
            ELSE Raise("TimeSpanCreateArgumentError", "No span exists between start and end")
    IN IF scope_of(start) /= scope_of(end)
       THEN Raise("TimeSpanCreateArgumentError", "start and end must have the same scope")
       ELSE span_on(compare_points(end, start), edge_point)

\* TimeSpan.__init__ with start a TimePoint or None
TimeSpan(start, start_edge, end, end_edge, span_type) ==
    IF start = NonePoint
    THEN Raise("TimeSpanCreateArgumentError", "start cannot be None")
    ELSE LET initialized(span) ==
                 IF span.raised THEN span
                 ELSE Ok([init_start |-> start, init_end |-> end] @@ span.value)
         IN initialized(IF end = NonePoint
                        THEN one_point_span(start, start_edge, span_type)
                        ELSE two_point_span(start, start_edge, end, end_edge))

----------------------------------------------------------------------------
(* Strings.  A string is a sequence of tokens: the characters "@", "_" and
   " ", and point texts, maximal stretches of other characters ("2022-01-01").
   No point text starts or ends with one of the three characters and no two
   point texts are adjacent, so slicing off a first or last character is
   slicing off a token. *)

IsText(token) == token \notin {"@", "_", " "}

\* TimeElement.parse_time_string_to_elements on a point text: the elements
\* matched from left to right and whether a character stayed unmatched
parse_point_text(text) ==
    CASE text = "2022-01-01" ->
            [elements |-> <<TimeElement("YR", 2022), TimeElement("MH", 1),
                            TimeElement("DY", 1)>>, unmatched |-> FALSE]
      [] text = "2022-12-31" ->
            [elements |-> <<TimeElement("YR", 2022), TimeElement("MH", 12),
                            TimeElement("DY", 31)>>, unmatched |-> FALSE]
      [] text = "2023-02-29" ->
            [elements |-> <<TimeElement("YR", 2023), TimeElement("MH", 2),
                            TimeElement("DY", 29)>>, unmatched |-> FALSE]
      \* the alternative patterns: month by name, day after "D"
      [] text = "2022JanD01" ->
            [elements |-> <<TimeElement("YR", 2022), TimeElement("MH", 1),
                            TimeElement("DY", 1)>>, unmatched |-> FALSE]
      [] text = "2022DecD31" ->
            [elements |-> <<TimeElement("YR", 2022), TimeElement("MH", 12),
                            TimeElement("DY", 31)>>, unmatched |-> FALSE]
      \* "-03" is no month ("-03-" is): the year, an unmatched "-", day 3
      [] text = "2022-03" ->
            [elements |-> <<TimeElement("YR", 2022), TimeElement("DY", 3)>>,
             unmatched |-> TRUE]

\* TimeElement.parse_time_string_to_elements on a string: "@", "_" and " "
\* begin no unit's pattern and are unmatched
RECURSIVE parse_time_string_to_elements(_)
parse_time_string_to_elements(time_string) ==
    IF time_string = <<>> THEN [elements |-> <<>>, unmatched |-> FALSE]
    ELSE LET rest == parse_time_string_to_elements(Tail(time_string))
         IN IF IsText(Head(time_string))
            THEN [elements |-> parse_point_text(Head(time_string)).elements
                               \o rest.elements,
                  unmatched |-> parse_point_text(Head(time_string)).unmatched
                                \/ rest.unmatched]
            ELSE [elements |-> rest.elements, unmatched |-> TRUE]

\* TimePoint.__init__ from a string
TimePointOfString(telements) ==
    LET created(parsed, point(_)) ==
            IF parsed.elements = <<>>
            THEN Raise("TimePointArgumentError", "String argument has no valid elements")
            ELSE IF parsed.unmatched
            THEN Raise("TimePointArgumentError", "String argument has unmatched substring")
            ELSE point(parsed.elements)
    IN created(parse_time_string_to_elements(telements), TimePoint)

\* create_timepoint of parse_time_span_string
create_timepoint(tp_str) ==
    LET created(point) ==
            IF point.raised /\ point.exc = "TimePointArgumentError"
            THEN Raise("TimeSpanStringError", "TimePoint creation failed")
            ELSE point
    IN created(TimePointOfString(tp_str))

\* str.strip()
RECURSIVE lstrip(_)
lstrip(str) ==
    IF str /= <<>> /\ Head(str) = " " THEN lstrip(Tail(str)) ELSE str

RECURSIVE rstrip(_)
rstrip(str) ==
    IF str /= <<>> /\ str[Len(str)] = " "
    THEN rstrip(SubSeq(str, 1, Len(str) - 1)) ELSE str

strip(str) == rstrip(lstrip(str))

startswith_at(str) == str /= <<>> /\ Head(str) = "@"

endswith_at(str) == str /= <<>> /\ str[Len(str)] = "@"

\* determine_edge_type of parse_time_span_string
determine_edge_type(tp_str, is_start) ==
    IF startswith_at(tp_str) THEN Ok([str |-> Tail(tp_str), edge |-> "START"])
    ELSE IF endswith_at(tp_str)
    THEN Ok([str |-> SubSeq(tp_str, 1, Len(tp_str) - 1), edge |-> "END"])
    ELSE IF is_start
    THEN Raise("TimeSpanStringError", "Missing '@' in the start component")
    ELSE Raise("TimeSpanStringError", "Missing '@' in the end component")

\* create_timepoint(tp_str) if tp_str else None
optional_timepoint(tp_str) ==
    IF tp_str = <<>> THEN Ok(NonePoint) ELSE create_timepoint(tp_str)

\* the dict returned by parse_time_span_string
ParsedSpan(start, start_edge, end, end_edge, span_type) ==
    IF start.raised THEN start
    ELSE IF end.raised THEN end
    ELSE Ok([start |-> start.value, start_edge |-> start_edge,
             end |-> end.value, end_edge |-> end_edge, span_type |-> span_type])

\* TimeSpan.parse_time_span_string
parse_time_span_string(span_str) ==
    IF span_str = <<>> \/ \A k \in 1..Len(span_str) : span_str[k] = " "
    THEN Raise("TimeSpanStringError", "TimeSpan string cannot be empty or whitespace")
    ELSE IF "_" \notin RangeOf(span_str)
    THEN (IF startswith_at(span_str) /\ endswith_at(span_str)
          THEN ParsedSpan(create_timepoint(SubSeq(span_str, 2, Len(span_str) - 1)),
                          "START", Ok(NonePoint), "None", "BETWEEN")
          ELSE Raise("TimeSpanStringError", "TimeSpan string must start and end with '@'"))
    ELSE LET at == SetMin({k \in 1..Len(span_str) : span_str[k] = "_"})
             start_str == strip(SubSeq(span_str, 1, at - 1))
             end_str == strip(SubSeq(span_str, at + 1, Len(span_str)))
             parsed(first, second, point(_)) ==
                 IF first.raised THEN first
                 ELSE IF start_str /= <<>> /\ end_str /= <<>>
                 THEN (IF second.raised THEN second
                       ELSE ParsedSpan(point(first.value.str), first.value.edge,
                                       point(second.value.str), second.value.edge,
                                       "BETWEEN"))
                 ELSE ParsedSpan(point(first.value.str), first.value.edge,
                                 Ok(NonePoint), "None",
                                 IF start_str /= <<>> THEN "BEFORE" ELSE "AFTER")
         IN IF start_str = <<>> /\ end_str = <<>>
            THEN Raise("TimeSpanStringError", "Invalid TimeSpan string with no components")
            ELSE parsed(IF start_str /= <<>>
                        THEN determine_edge_type(start_str, TRUE)
                        ELSE determine_edge_type(end_str, FALSE),
                        determine_edge_type(end_str, FALSE),
                        optional_timepoint)

\* TimeSpan.__init__ with start a string
TimeSpanOfString(span_str) ==
    LET span_of_arguments(prsed_arguments, span(_, _, _, _, _)) ==
            IF prsed_arguments.raised
            THEN (IF prsed_arguments.exc = "TimeSpanStringError"
                  THEN Raise("TimeSpanCreateArgumentError", prsed_arguments.msg)
                  ELSE prsed_arguments)
            ELSE span(prsed_arguments.value.start, prsed_arguments.value.start_edge,
                      prsed_arguments.value.end, prsed_arguments.value.end_edge,
                      prsed_arguments.value.span_type)
    IN span_of_arguments(parse_time_span_string(span_str), TimeSpan)

----------------------------------------------------------------------------
(* Specification of TimeSpan construction *)

\* the element lists of the points given to TimeSpan
SpanLists ==
    {<<TimeElement("YR", 2022), TimeElement("MH", 1), TimeElement("DY", 1)>>,
     <<TimeElement("YR", 2022), TimeElement("MH", 12), TimeElement("DY", 31)>>,
     <<TimeElement("YR", 2020), TimeElement("MH", 2), TimeElement("DY", 29)>>,
     <<TimeElement("YR", 2022)>>,
     <<TimeElement("MH", 3), TimeElement("DY", 4)>>,
     <<TimeElement("MH", 5), TimeElement("DY", 4)>>,
     <<TimeElement("YR", 2020), TimeElement("WK", 53), TimeElement("WY", 1)>>,
     <<TimeElement("WK", 10), TimeElement("WY", 2)>>,
     <<TimeElement("HR", 10), TimeElement("ME", 30)>>}

SpanPoints == {TimePoint(l).value : l \in SpanLists}

EdgeTypes == {"START", "END"}

SpanTypes == {"BETWEEN", "BEFORE", "AFTER"}

\* the longest span string drawn, in tokens
MaxTokens == 5

Tokens == {"@", "_", " ", "2022-01-01", "2022-12-31", "2023-02-29", "2022-03"}

SpanStrings ==
    {str \in UNION {[1..n -> Tokens] : n \in 0..MaxTokens} :
        \A k \in 1..(Len(str) - 1) : ~(IsText(str[k]) /\ IsText(str[k + 1]))}

InitSpan ==
    /\ pc = "call"
    /\ op = ""
    /\ result = NoResult
    /\ heap = NoObjects
    /\ \/ args \in [kind : {"points"},
                    start : SpanPoints \cup {NonePoint},
                    start_edge : EdgeTypes \cup {"None"},
                    end : SpanPoints \cup {NonePoint},
                    end_edge : EdgeTypes \cup {"None"},
                    span_type : SpanTypes]
       \/ args \in [kind : {"string"}, span_str : SpanStrings]

\* TimeSpan(start, start_edge, end, end_edge, span_type)
CreateTimeSpan ==
    /\ pc = "call"
    /\ args.kind = "points"
    /\ pc' = "done"
    /\ op' = "TimeSpan"
    /\ result' = TimeSpan(args.start, args.start_edge, args.end, args.end_edge,
                          args.span_type)
    /\ UNCHANGED <<args, heap>>

\* TimeSpan(span_str)
CreateTimeSpanOfString ==
    /\ pc = "call"
    /\ args.kind = "string"
    /\ pc' = "done"
    /\ op' = "TimeSpan"
    /\ result' = TimeSpanOfString(args.span_str)
    /\ UNCHANGED <<args, heap>>

NextSpan == CreateTimeSpan \/ CreateTimeSpanOfString

SpecSpan == InitSpan /\ [][NextSpan]_vars

----------------------------------------------------------------------------
(* Properties of TimeSpan construction *)

\* No call of TimeSpan returns: with span_type one of the three SpanType
\* members, every construction, from points or from a string, ends in an
\* exception, so no TimeSpan exists whose start and end could be compared.
NoTimeSpanConstructed ==
    (pc = "done" /\ op = "TimeSpan") => result.raised

\* two points are given, comparable and both with a year
TwoDatedPoints ==
    /\ pc = "done"
    /\ op = "TimeSpan"
    /\ args.kind = "points"
    /\ args.start /= NonePoint
    /\ args.end /= NonePoint
    /\ Comparable(args.start.time_elements, args.end.time_elements)
    /\ HasUnit(args.start.time_elements, "YR")
    /\ HasUnit(args.end.time_elements, "YR")

\* C2: two-point construction from comparable Points fails with
\* TimeSpanCreateArgumentError "start is greater than end" when end is
\* earlier than start, and with "start and end are equal; there is no
\* span" when both denote the same instant.
C2_ReversedOrEqualMessage ==
    TwoDatedPoints
    => LET order == Order(InstantOf(args.end.time_elements),
                          InstantOf(args.start.time_elements))
       IN /\ order = -1
               => /\ Failed("TimeSpanCreateArgumentError")
                  /\ result.msg = "start is greater than end"
          /\ order = 0
               => /\ Failed("TimeSpanCreateArgumentError")
                  /\ result.msg = "start and end are equal; there is no span"

----------------------------------------------------------------------------
(* timepoint.py: occurrences of a pattern point in a period *)

\* TimePoint.sequence_name
sequence_name(point) == what_is_sequence(point.time_elements)

\* TimePoint.units
units(point) == [k \in 1..Len(point.time_elements) |-> point.time_elements[k].unit]

\* TimePoint.values
values(point) == [k \in 1..Len(point.time_elements) |-> point.time_elements[k].value]

\* TimePoint.over_units
over_units(point) == find_ordered_elements_over_under_units(point.time_elements).O

\* a slice bound of Python brought into 0..n
slice_index(i, n) ==
    IF i < 0 THEN (IF i + n < 0 THEN 0 ELSE i + n)
    ELSE IF i > n THEN n ELSE i

\* list[a:b]
slice(list, a, b) ==
    SubSeq(list, slice_index(a, Len(list)) + 1, slice_index(b, Len(list)))

\* list[a:]
slice_from(list, a) == SubSeq(list, slice_index(a, Len(list)) + 1, Len(list))

\* list(range(a, b))
range(a, b) == [k \in 1..(IF b > a THEN b - a ELSE 0) |-> a + k - 1]

\* TimeElement.unit_values_to_end_scope(unit_name, start_value, month) for
\* a unit below the year: UNITS[unit_name]["values_to_end_scope"]
unit_values_to_end_scope(unit_name, start_value, month) ==
    CASE unit_name = "MH" -> range(start_value, 13)
      [] unit_name = "DY" -> IF month \notin 1..12 THEN <<31>>
                             ELSE range(start_value, day_allow_vals_max[month])
      [] unit_name = "WK" -> range(start_value, 54)
      [] unit_name = "WY" -> range(start_value, 8)
      [] unit_name = "HR" -> range(start_value, 24)
      [] unit_name \in {"ME", "SD"} -> range(start_value, 60)

\* TimePoint.filled_on_type
filled_on_type(point) ==
    IF point.point_type = "START" THEN start_filled(point) ELSE end_filled(point)

\* TimePoint.filled_timepoint_on_type
filled_timepoint_on_type(point) == point_of_filled(point, filled_on_type(point))

\* create_timepoints at dim == len(over_units): the one TimePoint made of
\* the accumulated over values and the filled values of the point
deepest_timepoint(point, null_over, accumulated_values) ==
    LET listed(created) ==
            IF created.raised THEN created ELSE Ok(<<created.value>>)
        built(elements, created(_)) ==
            IF elements.raised THEN elements ELSE listed(created(elements.value))
        filled(filled_point, created(_)) ==
            IF filled_point.raised THEN filled_point
            ELSE built(units_vlaues_to_ordered_elements(
                           null_over \o accumulated_values
                           \o values(filled_point.value)
                           \o <<IF is_iso(point) THEN 1 ELSE 0>>),
                       created)
    IN filled(filled_timepoint_on_type(point), TimePoint)

\* the values one level of create_timepoints runs through
current_range(unit, start_value, end_value, current_month, has_month, is_first, is_last) ==
    IF unit = "YR" THEN range(start_value, end_value + 1)
    ELSE IF is_first
    THEN slice_from(unit_values_to_end_scope(unit, 1, -1), start_value - 1)
    ELSE IF is_last
    THEN slice(unit_values_to_end_scope(unit, 1, -1), 0, end_value)
    ELSE unit_values_to_end_scope(
             unit, 1, IF unit = "DY" /\ has_month THEN current_month ELSE -1)

\* create_timepoints of _points_occurances_in_over_range (dim counts from
\* 0) and its loop over current_range from position i on; the first
\* exception raised ends the call
RECURSIVE create_timepoints(_, _, _, _, _, _, _, _, _, _)
RECURSIVE results_list(_, _, _, _, _, _, _, _, _, _)
create_timepoints(point, units_over, null_over, starts, ends, dim, current_month, accumulated_values, is_first, is_last) ==
    IF dim = Len(units_over)
    THEN deepest_timepoint(point, null_over, accumulated_values)
    ELSE results_list(point, units_over, null_over, starts, ends, dim,
                      current_month, accumulated_values,
                      current_range(units_over[dim + 1], starts[dim + 1],
                                    ends[dim + 1], current_month,
                                    "MH" \in RangeOf(units_over),
                                    is_first, is_last),
                      1)

results_list(point, units_over, null_over, starts, ends, dim, current_month, accumulated_values, values_range, i) ==
    IF i > Len(values_range) THEN Ok(<<>>)
    ELSE LET extended(created, rest) ==
                 IF created.raised THEN created
                 ELSE IF rest.raised THEN rest
                 ELSE Ok(created.value \o rest.value)
         IN extended(
                create_timepoints(point, units_over, null_over, starts, ends,
                                  dim + 1,
                                  IF units_over[dim + 1] = "MH" THEN i
                                  ELSE current_month,
                                  Append(accumulated_values, values_range[i]),
                                  i = 1, i = Len(values_range)),
                results_list(point, units_over, null_over, starts, ends, dim,
                             current_month, accumulated_values, values_range,
                             i + 1))

\* min(a, b)
min(a, b) == IF a < b THEN a ELSE b

\* TimePoint._points_occurances_in_over_range, for non-empty overs_starts
\* and overs_ends
points_occurances_in_over_range(point, overs_starts, overs_ends) ==
    LET overs_length == min(Len(overs_starts), Len(overs_ends))
        point_over_units == over_units(point)
    IN create_timepoints(
           point,
           slice_from(point_over_units, -overs_length),
           [k \in 1..(IF Len(point_over_units) > overs_length
                      THEN Len(point_over_units) - overs_length ELSE 0) |-> -1],
           overs_starts, overs_ends, 0, 1, <<>>, TRUE, TRUE)

\* sum(1 for unit in bound.units if unit in point.units)
common_count(bound, point) ==
    Cardinality({k \in 1..Len(units(bound)) : units(bound)[k] \in RangeOf(units(point))})

\* some pair of zip(start_values, end_values) has start_value < end_value
some_start_less(start_values, end_values) ==
    \E k \in 1..min(Len(start_values), Len(end_values)) :
        start_values[k] < end_values[k]

\* TimePoint.occurrences_in_period
occurrences_in_period(point, start, end) ==
    LET common_units == RangeOf(units(start)) \cap RangeOf(units(end))
        point_required_units == RangeOf(slice_from(over_units(point), -2))
        len_start_over_point == Len(units(start)) - common_count(start, point)
        len_end_over_point == Len(units(end)) - common_count(end, point)
        common_over_length == min(len_start_over_point, len_end_over_point)
        start_values == slice(values(start),
                              -(len_start_over_point + common_over_length),
                              -(len_start_over_point - 1))
        end_values == slice(values(end),
                            -(len_end_over_point + common_over_length),
                            -(len_end_over_point - 1))
    IN IF \/ sequence_name(start) /= sequence_name(end)
          \/ sequence_name(start) /= sequence_name(point)
          \/ sequence_name(end) /= sequence_name(point)
       THEN Raise("TimePointOccurrenceError",
                  "Start, end, and point time points must have the same sequence.")
       ELSE IF ~(point_required_units \subseteq common_units)
       THEN Raise("TimePointOccurrenceError",
                  "Insufficient units in start or end time points.")
       ELSE IF ~some_start_less(start_values, end_values)
       THEN Raise("TimePointOccurrenceError",
                  "Start values must be less than end values.")
       ELSE points_occurances_in_over_range(point, start_values, end_values)

----------------------------------------------------------------------------
(* timepoint.py: is_between_points *)

\* add_element_to_ordered_elements: Ok(the list with element_added put
\* before or after elements) or the exception raised
add_element_to_ordered_elements(element_added, elements) ==
    LET over_join_units(unit) ==
            CASE unit = "SD" -> {"ME"}
              [] unit = "ME" -> {"HR"}
              [] unit = "HR" -> {"DY", "WY"}
              [] unit = "WY" -> {"WK"}
              [] unit \in {"WK", "MH"} -> {"YR"}
              [] unit = "DY" -> {"MH"}
              [] OTHER -> {}
        under_join_units(unit) ==
            CASE unit = "ME" -> {"SD"}
              [] unit = "HR" -> {"ME"}
              [] unit \in {"WY", "DY"} -> {"HR"}
              [] unit = "WK" -> {"WY"}
              [] unit = "MH" -> {"DY"}
              [] unit = "YR" -> {"WK", "MH"}
              [] OTHER -> {}
        checked(result_elements) ==
            LET result_of(ordered) ==
                    IF ordered.raised
                    THEN (IF ordered.exc = "ValueError"
                          THEN Raise("ValueError", "result elements") ELSE ordered)
                    ELSE Ok(result_elements)
            IN result_of(is_ordered_elements(result_elements))
        added(ordered) ==
            IF ordered.raised
            THEN (IF ordered.exc = "ValueError"
                  THEN Raise("ValueError", "argument elements") ELSE ordered)
            ELSE IF element_added.unit \in UnitsOf(elements)
            THEN Raise("ValueError", "The element unit is already in the list")
            ELSE IF element_added.unit \in over_join_units(elements[1].unit)
            THEN checked(<<element_added>> \o elements)
            ELSE IF element_added.unit
                        \in under_join_units(elements[Len(elements)].unit)
            THEN checked(Append(elements, element_added))
            ELSE Raise("ValueError", "The element unit is not above or below unit of the existing elements")
    IN IF elements = <<>> THEN Ok(<<element_added>>)
       ELSE added(is_ordered_elements(elements))

\* the two comparisons of is_between_points, of the point with the start
\* and of the end with the point, and the three tests on their results:
\* Ok(<<indicator>>), Ok(<<>>) when no test assigns one, or the exception
between_indicator(point_elems, start_elems, end_elems) ==
    LET is_int(comp, n) == comp.kind = "int" /\ comp.int = n
        not_comparable(comp) ==
            IF comp.exc = "ValueError"
            THEN Raise("TimePointNotComparableError",
                       "TimePoint instances are not comparable")
            ELSE comp
        indicator(comp_with) ==
            IF comp_with.start.raised THEN not_comparable(comp_with.start)
            ELSE IF comp_with.end.raised THEN not_comparable(comp_with.end)
            ELSE IF is_int(comp_with.end.value, -1) THEN Ok(<<1>>)
            ELSE IF is_int(comp_with.start.value, -1) THEN Ok(<<-1>>)
            ELSE IF is_int(comp_with.start.value, 1)
                    /\ is_int(comp_with.end.value, 1)
            THEN Ok(<<0>>)
            ELSE Ok(<<>>)
    IN indicator([with \in {"start", "end"} |->
                     compare_two_ordered_comparable_elements(
                         IF with = "start" THEN point_elems ELSE end_elems,
                         IF with = "start" THEN start_elems ELSE point_elems,
                         FALSE)])

\* the loop of is_between_points over the years of comp_result["greater"],
\* from position k on: the years given an indicator, as a function
RECURSIVE between_by_year(_, _, _, _, _)
between_by_year(year_to_compare, k, start_elems, end_elems, point_elems) ==
    IF k > Len(year_to_compare) THEN Ok(<<>>)
    ELSE LET year == year_to_compare[k]
             put(indicator, rest) ==
                 IF indicator.raised THEN indicator
                 ELSE IF rest.raised THEN rest
                 ELSE IF indicator.value = <<>> \/ year \in DOMAIN rest.value
                 THEN rest
                 ELSE Ok([y \in DOMAIN rest.value \cup {year} |->
                             IF y = year THEN indicator.value[1]
                             ELSE rest.value[y]])
             compared(with_year, indicator_of(_, _, _)) ==
                 IF with_year.start.raised THEN with_year.start
                 ELSE IF with_year.end.raised THEN with_year.end
                 ELSE IF with_year.point.raised THEN with_year.point
                 ELSE put(indicator_of(with_year.point.value,
                                       with_year.start.value,
                                       with_year.end.value),
                          between_by_year(year_to_compare, k + 1, start_elems,
                                          end_elems, point_elems))
         IN compared([of \in {"start", "end", "point"} |->
                         add_element_to_ordered_elements(
                             TimeElement("YR", year),
                             CASE of = "start" -> start_elems
                               [] of = "end" -> end_elems
                               [] of = "point" -> point_elems)],
                     between_indicator)

\* TimePoint.is_between_points: Ok of an int indicator or of a dict from
\* years to indicators, or the exception raised
is_between_points(point, start, end) ==
    LET not_comparable ==
            Raise("TimePointNotComparableError",
                  "TimePoint instances are not comparable")
        int_result(indicator) ==
            IF indicator.raised THEN indicator
            ELSE IF indicator.value = <<>>
            THEN Raise("UnboundLocalError",
                       "cannot access local variable 'indicator' where it is not associated with a value")
            ELSE Ok([kind |-> "int", int |-> indicator.value[1], by_year |-> <<>>])
        dict_result(by_year) ==
            IF by_year.raised THEN by_year
            ELSE Ok([kind |-> "dict", int |-> 0, by_year |-> by_year.value])
        between(comp_result, start_elems, end_elems, point_elems,
                indicator_of(_, _, _), by_year_of(_, _, _, _, _)) ==
            IF comp_result.raised
            THEN (IF comp_result.exc = "ValueError" THEN not_comparable
                  ELSE comp_result)
            ELSE IF comp_result.value.kind = "int"
            THEN (IF comp_result.value.int = 0
                  THEN Raise("TimePointNotSpanError", "there is no span between")
                  ELSE IF comp_result.value.int = 1
                  THEN int_result(indicator_of(point_elems, start_elems, end_elems))
                  ELSE IF comp_result.value.int = -1
                  THEN Ok([kind |-> "int", int |-> 1, by_year |-> <<>>])
                  ELSE not_comparable)
            ELSE dict_result(by_year_of(comp_result.value.greater, 1,
                                        start_elems, end_elems, point_elems))
        filled(points, compare(_, _, _), indicator_of(_, _, _),
               by_year_of(_, _, _, _, _)) ==
            IF points.start.raised THEN points.start
            ELSE IF points.end.raised THEN points.end
            ELSE IF points.point.raised THEN points.point
            ELSE between(compare(points.end.value.time_elements,
                                 points.start.value.time_elements, FALSE),
                         points.start.value.time_elements,
                         points.end.value.time_elements,
                         points.point.value.time_elements,
                         indicator_of, by_year_of)
    IN IF scope_of(start) /= scope_of(end) THEN not_comparable
       ELSE filled([of \in {"start", "end", "point"} |->
                       filled_timepoint_on_type(
                           CASE of = "start" -> start
                             [] of = "end" -> end
                             [] of = "point" -> point)],
                   compare_two_ordered_comparable_elements,
                   between_indicator, between_by_year)

----------------------------------------------------------------------------
(* Calls of the static methods that take a point and a period *)

PeriodLists ==
    {<<TimeElement("DY", 20), TimeElement("HR", 22)>>,
     <<TimeElement("YR", 2020), TimeElement("MH", 8), TimeElement("DY", 1)>>,
     <<TimeElement("YR", 2022), TimeElement("MH", 4), TimeElement("DY", 28)>>,
     <<TimeElement("YR", 2021), TimeElement("MH", 6), TimeElement("DY", 15)>>,
     <<TimeElement("YR", 2020), TimeElement("MH", 8)>>,
     <<TimeElement("YR", 2022), TimeElement("MH", 4)>>,
     <<TimeElement("YR", 2020)>>,
     <<TimeElement("MH", 3), TimeElement("DY", 4)>>,
     <<TimeElement("HR", 10)>>,
     <<TimeElement("YR", 2020), TimeElement("WK", 5), TimeElement("WY", 1)>>,
     <<TimeElement("WK", 10), TimeElement("WY", 2)>>}

PeriodPoints == {TimePoint(l).value : l \in PeriodLists}

\* Points read for their start_point and end_point: with and without a
\* year, ending at each unit of the Gregorian and of the ISO sequence
EdgeLists ==
    PeriodLists
    \cup {<<TimeElement("YR", 2020), TimeElement("MH", 2)>>,
          <<TimeElement("YR", 2021), TimeElement("MH", 2)>>,
          <<TimeElement("YR", 2020), TimeElement("WK", 5)>>,
          <<TimeElement("YR", 2020), TimeElement("MH", 2), TimeElement("DY", 29),
            TimeElement("HR", 7)>>,
          <<TimeElement("YR", 2022), TimeElement("MH", 4), TimeElement("DY", 28),
            TimeElement("HR", 7), TimeElement("ME", 30)>>,
          <<TimeElement("YR", 2022), TimeElement("MH", 4), TimeElement("DY", 28),
            TimeElement("HR", 7), TimeElement("ME", 30), TimeElement("SD", 15)>>,
          <<TimeElement("MH", 4)>>,
          <<TimeElement("WY", 3), TimeElement("HR", 7)>>,
          <<TimeElement("MH", 2), TimeElement("DY", 29)>>,
          <<TimeElement("WK", 53), TimeElement("WY", 5)>>,
          <<TimeElement("YR", 2020), TimeElement("WK", 53), TimeElement("WY", 1)>>}

EdgePoints == {TimePoint(l).value : l \in EdgeLists}

InitPeriod ==
    /\ pc = "call"
    /\ op = ""
    /\ result = NoResult
    /\ heap = NoObjects
    /\ \/ args \in [kind : {"period"}, point : PeriodPoints,
                    start : PeriodPoints, end : PeriodPoints]
       \/ args \in [kind : {"point"}, point : EdgePoints]
       \/ args \in [kind : {"unit"}, unit_name : {"MH", "DY", "WK", "WY", "HR"},
                    start_value : 1..2, month : {-1} \cup 1..12]

\* TimePoint.occurrences_in_period(point, start, end)
OccurrencesInPeriod ==
    /\ pc = "call"
    /\ args.kind = "period"
    /\ pc' = "done"
    /\ op' = "occurrences_in_period"
    /\ result' = occurrences_in_period(args.point, args.start, args.end)
    /\ UNCHANGED <<args, heap>>

\* TimePoint.is_between_points(point, start, end)
IsBetweenPoints ==
    /\ pc = "call"
    /\ args.kind = "period"
    /\ pc' = "done"
    /\ op' = "is_between_points"
    /\ result' = is_between_points(args.point, args.start, args.end)
    /\ UNCHANGED <<args, heap>>

\* point.start_point
StartPoint ==
    /\ pc = "call"
    /\ args.kind = "point"
    /\ pc' = "done"
    /\ op' = "start_point"
    /\ result' = start_point(args.point)
    /\ UNCHANGED <<args, heap>>

\* point.end_point
EndPoint ==
    /\ pc = "call"
    /\ args.kind = "point"
    /\ pc' = "done"
    /\ op' = "end_point"
    /\ result' = end_point(args.point)
    /\ UNCHANGED <<args, heap>>

\* point.available_years
AvailableYears ==
    /\ pc = "call"
    /\ args.kind = "point"
    /\ pc' = "done"
    /\ op' = "available_years"
    /\ result' = Ok(available_years(args.point))
    /\ UNCHANGED <<args, heap>>

\* point.start_point_in_scope
StartPointInScope ==
    /\ pc = "call"
    /\ args.kind = "point"
    /\ pc' = "done"
    /\ op' = "start_point_in_scope"
    /\ result' = start_point_in_scope(args.point)
    /\ UNCHANGED <<args, heap>>

\* point.end_point_in_scope
EndPointInScope ==
    /\ pc = "call"
    /\ args.kind = "point"
    /\ pc' = "done"
    /\ op' = "end_point_in_scope"
    /\ result' = end_point_in_scope(args.point)
    /\ UNCHANGED <<args, heap>>

\* TimeElement.unit_values_to_end_scope(unit_name, start_value, month)
UnitValuesToEndScope ==
    /\ pc = "call"
    /\ args.kind = "unit"
    /\ pc' = "done"
    /\ op' = "unit_values_to_end_scope"
    /\ result' = Ok(unit_values_to_end_scope(args.unit_name, args.start_value,
                                             args.month))
    /\ UNCHANGED <<args, heap>>

NextPeriod ==
    \/ UnitValuesToEndScope
    \/ OccurrencesInPeriod
    \/ IsBetweenPoints
    \/ StartPoint
    \/ EndPoint
    \/ AvailableYears
    \/ StartPointInScope
    \/ EndPointInScope

SpecPeriod == InitPeriod /\ [][NextPeriod]_vars

----------------------------------------------------------------------------
(* Properties of occurrences_in_period *)

\* the value of unit in a point, -1 when the point has no such unit
UnitValue(point, unit) == ValueIn(point.time_elements, unit)

\* the (year, month) pairs from (y1, m1) through (y2, m2), ascending
MonthsThrough(y1, m1, y2, m2) ==
    [k \in 1..(IF y2 * 12 + m2 >= y1 * 12 + m1
               THEN (y2 * 12 + m2) - (y1 * 12 + m1) + 1 ELSE 0) |->
        <<(y1 * 12 + m1 - 1 + k - 1) \div 12,
          ((y1 * 12 + m1 - 1 + k - 1) % 12) + 1>>]

\* the call is occurrences_in_period of a pattern below the month in a
\* period given by year and month, the start year below the end year
MonthlyPatternCall ==
    /\ pc = "done"
    /\ op = "occurrences_in_period"
    /\ over_units(args.point) = <<"YR", "MH">>
    /\ {"YR", "MH"} \subseteq RangeOf(units(args.start)) \cap RangeOf(units(args.end))
    /\ UnitValue(args.start, "YR") < UnitValue(args.end, "YR")

\* C12: for a pattern whose missing over units are exactly YR and MH and a
\* period whose start year is below its end year, occurrences_in_period
\* returns one Point for each (year, month) from the start's through the
\* end's, ascending and without repetition, each beginning with that year
\* and month followed by the pattern's own values.
C12_MonthlyOccurrences ==
    MonthlyPatternCall =>
        /\ ~result.raised
        /\ LET months == MonthsThrough(UnitValue(args.start, "YR"),
                                       UnitValue(args.start, "MH"),
                                       UnitValue(args.end, "YR"),
                                       UnitValue(args.end, "MH"))
           IN /\ Len(result.value) = Len(months)
              /\ \A k \in 1..Len(months) :
                     SubSeq(values(result.value[k]), 1,
                            2 + Len(values(args.point)))
                         = months[k] \o values(args.point)

\* No call of occurrences_in_period returns a Point: a call either raises or
\* returns the empty list, because every Point it would build goes through
\* filled_timepoint_on_type, which passes seven of the eight arguments of
\* units_vlaues_to_ordered_elements.
NoOccurrenceReturned ==
    (pc = "done" /\ op = "occurrences_in_period")
        => (result.raised \/ result.value = <<>>)

\* the values of a period bound on the over units of the pattern that the
\* bound holds, in sequence order
SharedOverValues(bound, point) ==
    LET shared == SelectSeq(over_units(point),
                            LAMBDA u : u \in RangeOf(units(bound)))
    IN [k \in 1..Len(shared) |-> UnitValue(bound, shared[k])]

\* a is before b in the order of the value lists, unit by unit
RECURSIVE ValuesLess(_, _)
ValuesLess(a, b) ==
    IF a = <<>> \/ b = <<>> THEN FALSE
    ELSE IF Head(a) /= Head(b) THEN Head(a) < Head(b)
    ELSE ValuesLess(Tail(a), Tail(b))

\* C14: occurrences_in_period raises TimePointOccurrenceError, and returns
\* nothing, whenever the values of the period start on the shared over
\* units are not less than those of the period end.
C14_NonIncreasingPeriodRejected ==
    (/\ pc = "done"
     /\ op = "occurrences_in_period"
     /\ SharedOverValues(args.start, args.point) /= <<>>
     /\ ~ValuesLess(SharedOverValues(args.start, args.point),
                    SharedOverValues(args.end, args.point)))
    => Failed("TimePointOccurrenceError")

----------------------------------------------------------------------------
(* Properties of is_between_points *)

\* the call is is_between_points of three mutually comparable Points that
\* hold a year, the start earlier than the end
DefiniteBetweenCall ==
    /\ pc = "done"
    /\ op = "is_between_points"
    /\ Comparable(args.start.time_elements, args.end.time_elements)
    /\ Comparable(args.point.time_elements, args.start.time_elements)
    /\ \A p \in {args.point, args.start, args.end} : HasUnit(p.time_elements, "YR")
    /\ Order(InstantOf(args.start.time_elements),
             InstantOf(args.end.time_elements)) = -1

\* C16: for a Point p and bounds lo earlier than hi, all mutually comparable
\* and definite, is_between_points returns exactly one of -1, 0, 1: -1 when
\* p is before lo, 1 when p is after hi and 0 otherwise, p equal to lo or
\* to hi included.
C16_BetweenIndicator ==
    DefiniteBetweenCall =>
        /\ ~result.raised
        /\ result.value.kind = "int"
        /\ result.value.int =
               IF Order(InstantOf(args.point.time_elements),
                        InstantOf(args.start.time_elements)) = -1 THEN -1
               ELSE IF Order(InstantOf(args.point.time_elements),
                             InstantOf(args.end.time_elements)) = 1 THEN 1
               ELSE 0

\* No call of is_between_points returns: start and end of different scope
\* give TimePointNotComparableError, and otherwise the first read of
\* filled_timepoint_on_type raises TypeError.
BetweenAlwaysRaises ==
    (pc = "done" /\ op = "is_between_points") => result.raised

----------------------------------------------------------------------------
(* timespan.py: containment of a span in a period *)

\* check_contained of is_contained_in_preiod
check_contained(start_con, end_con) ==
    IF start_con = 1 /\ end_con = 1 THEN "AHEAD"
    ELSE IF start_con = 0 /\ end_con = 0 THEN "INSIDE"
    ELSE IF start_con = -1 /\ end_con = -1 THEN "BEHIND"
    ELSE IF start_con = 0 /\ end_con = 1 THEN "END_OVERLAPPED"
    ELSE IF start_con = -1 /\ end_con = 0 THEN "START_OVERLAPPED"
    ELSE "ERROR"

\* TimeSpan.is_contained_in_preiod: Ok of a SpanContain member or of a dict
\* from years to members, or the exception raised
is_contained_in_preiod(time_span, start, end) ==
    LET occurrence_error(contained) ==
            IF contained.exc = "TimePointOccurrenceError"
            THEN Raise("TimeSpanOccurrenceError", contained.msg)
            ELSE contained
        checked(contained) ==
            IF contained.start.raised THEN occurrence_error(contained.start)
            ELSE IF contained.end.raised THEN occurrence_error(contained.end)
            ELSE IF contained.start.value.kind = "int"
                    /\ contained.end.value.kind = "int"
            THEN Ok(check_contained(contained.start.value.int,
                                    contained.end.value.int))
            ELSE IF contained.end.value.kind = "int"
            THEN Ok([y \in DOMAIN contained.start.value.by_year |->
                        check_contained(contained.start.value.by_year[y],
                                        contained.end.value.int)])
            ELSE IF contained.start.value.kind = "int"
            THEN Ok([y \in DOMAIN contained.end.value.by_year |->
                        check_contained(contained.end.value.by_year[y],
                                        contained.start.value.int)])
            ELSE Ok([y \in DOMAIN contained.start.value.by_year
                            \cap DOMAIN contained.end.value.by_year |->
                        check_contained(contained.start.value.by_year[y],
                                        contained.end.value.by_year[y])])
    IN checked([of \in {"start", "end"} |->
                   is_between_points(
                       IF of = "start" THEN time_span.start ELSE time_span.end,
                       start, end)])

\* TimeSpan.is_contained_in_span
is_contained_in_span(contained_span, container_span) ==
    is_contained_in_preiod(contained_span, container_span.start,
                           container_span.end)

----------------------------------------------------------------------------
(* timespan.py: the string of a span *)

\* TimePoint.default_representation / alternative_representation of a
\* Point with these elements: the representations of the elements, joined
RECURSIVE representation(_, _)
representation(elements, is_default_repr) ==
    LET digit(n) ==
            CASE n = 0 -> "0" [] n = 1 -> "1" [] n = 2 -> "2" [] n = 3 -> "3"
              [] n = 4 -> "4" [] n = 5 -> "5" [] n = 6 -> "6" [] n = 7 -> "7"
              [] n = 8 -> "8" [] n = 9 -> "9"
        d02(n) == digit(n \div 10) \o digit(n % 10)
        d04(n) == d02(n \div 100) \o d02(n % 100)
        month(n) ==
            CASE n = 1 -> "Jan" [] n = 2 -> "Feb" [] n = 3 -> "Mar"
              [] n = 4 -> "Apr" [] n = 5 -> "May" [] n = 6 -> "Jun"
              [] n = 7 -> "Jul" [] n = 8 -> "Aug" [] n = 9 -> "Sep"
              [] n = 10 -> "Oct" [] n = 11 -> "Nov" [] n = 12 -> "Dec"
        weekday(n) ==
            CASE n = 1 -> "MO" [] n = 2 -> "TU" [] n = 3 -> "WE" [] n = 4 -> "TH"
              [] n = 5 -> "FR" [] n = 6 -> "SA" [] n = 7 -> "SU"
        of(unit, value) ==
            CASE unit = "YR" -> d04(value)
              [] unit = "MH" -> IF is_default_repr THEN "-" \o d02(value) \o "-"
                                ELSE month(value)
              [] unit = "DY" -> IF is_default_repr THEN d02(value)
                                ELSE "D" \o d02(value)
              [] unit = "WK" -> IF is_default_repr THEN "-W" \o d02(value)
                                ELSE "W" \o d02(value)
              [] unit = "WY" -> IF is_default_repr THEN "-" \o digit(value)
                                ELSE weekday(value)
              [] unit = "HR" -> IF is_default_repr THEN "T" \o d02(value)
                                ELSE "H" \o d02(value)
              [] unit = "ME" -> IF is_default_repr THEN ":" \o d02(value)
                                ELSE "M" \o d02(value)
              [] unit = "SD" -> IF is_default_repr THEN ":" \o d02(value) \o "."
                                ELSE "S" \o d02(value)
    IN IF elements = <<>> THEN ""
       ELSE of(Head(elements).unit, Head(elements).value)
            \o representation(Tail(elements), is_default_repr)

\* TimeSpan.time_span_to_span_string: the string as a sequence of tokens
time_span_to_span_string(time_span, is_default_repr) ==
    LET get_representation(start) ==
            representation(IF start THEN time_span.init_start.time_elements
                           ELSE time_span.init_end.time_elements,
                           is_default_repr)
        set_edge_marker(edge_type, init_str) ==
            IF edge_type = "START" THEN <<"@", init_str>> ELSE <<init_str, "@">>
    IN IF time_span.init_end = NonePoint
       THEN CASE time_span.type = "BETWEEN" ->
                     Ok(<<"@", get_representation(TRUE), "@">>)
              [] time_span.type = "AFTER" ->
                     Ok(<<"_">> \o set_edge_marker(time_span.start_edge,
                                                  get_representation(TRUE)))
              [] time_span.type = "BEFORE" ->
                     Ok(set_edge_marker(time_span.start_edge,
                                        get_representation(TRUE)) \o <<"_">>)
              [] OTHER -> Raise("TimeSpanStringError", "Invalid TimeSpan configuration")
       ELSE Ok(set_edge_marker(time_span.start_edge, get_representation(TRUE))
               \o <<"_">>
               \o set_edge_marker(time_span.end_edge, get_representation(FALSE)))

\* TimeSpan.occurrences_in_period: Ok of [none, occurrences], none standing
\* for the None returned when either list of occurrences is empty, or the
\* exception raised
span_occurrences_in_period(time_span, period_start, period_end) ==
    LET occurrence_error(found) ==
            IF found.exc = "TimePointOccurrenceError"
            THEN Raise("TimeSpanOccurrenceError", found.msg)
            ELSE found
        occurrences(spans) ==
            IF \E i \in DOMAIN spans : spans[i].raised
            THEN spans[CHOOSE i \in DOMAIN spans :
                           /\ spans[i].raised
                           /\ \A j \in 1..(i - 1) : ~spans[j].raised]
            ELSE Ok([none |-> FALSE,
                     occurrences |-> [i \in DOMAIN spans |-> spans[i].value]])
        zipped(start_occurrences, end_occurrences, span(_, _, _, _, _)) ==
            occurrences([i \in 1..min(Len(start_occurrences), Len(end_occurrences)) |->
                            span(start_occurrences[i], time_span.start_edge,
                                 end_occurrences[i], time_span.end_edge, "BETWEEN")])
        paired(found, span(_, _, _, _, _)) ==
            IF found.start.raised THEN occurrence_error(found.start)
            ELSE IF found.end.raised THEN occurrence_error(found.end)
            ELSE IF found.start.value = <<>> \/ found.end.value = <<>>
            THEN Ok([none |-> TRUE, occurrences |-> <<>>])
            ELSE IF Len(found.start.value) < Len(found.end.value)
            THEN zipped(Tail(found.start.value), found.end.value, span)
            ELSE IF Len(found.start.value) > Len(found.end.value)
            THEN zipped(found.start.value,
                        SubSeq(found.end.value, 1, Len(found.end.value) - 1), span)
            ELSE zipped(found.start.value, found.end.value, span)
    IN IF time_span.type # "BETWEEN"
       THEN Raise("TimeSpanOccurrenceError", "time_span must be of type BETWEEN")
       ELSE paired([of \in {"start", "end"} |->
                       occurrences_in_period(
                           IF of = "start" THEN time_span.start ELSE time_span.end,
                           period_start, period_end)],
                   TimeSpan)

----------------------------------------------------------------------------
(* Calls of the static methods of TimeSpan on spans built for the call *)

\* the Points of test_occurrences_in_period_no_occurrences and a period
\* given by year and month
OccurrenceLists ==
    {<<TimeElement("DY", 1), TimeElement("HR", 12), TimeElement("ME", 21),
       TimeElement("SD", 21)>>,
     <<TimeElement("DY", 11), TimeElement("HR", 12), TimeElement("ME", 21),
       TimeElement("SD", 21)>>,
     <<TimeElement("YR", 2022), TimeElement("MH", 1), TimeElement("DY", 1)>>,
     <<TimeElement("YR", 2022), TimeElement("MH", 12), TimeElement("DY", 31)>>,
     <<TimeElement("YR", 2022), TimeElement("MH", 1)>>,
     <<TimeElement("YR", 2022), TimeElement("MH", 12)>>}

OccurrencePoints == {TimePoint(l).value : l \in OccurrenceLists}

ContainLists ==
    {<<TimeElement("YR", 2022), TimeElement("MH", 1), TimeElement("DY", 1)>>,
     <<TimeElement("YR", 2022), TimeElement("MH", 3), TimeElement("DY", 1)>>,
     <<TimeElement("YR", 2022), TimeElement("MH", 3), TimeElement("DY", 31)>>,
     <<TimeElement("YR", 2022), TimeElement("MH", 12), TimeElement("DY", 31)>>,
     <<TimeElement("YR", 2023), TimeElement("MH", 2), TimeElement("DY", 1)>>,
     <<TimeElement("YR", 2023), TimeElement("MH", 11), TimeElement("DY", 29)>>,
     <<TimeElement("MH", 3), TimeElement("DY", 4)>>}

ContainPoints == {TimePoint(l).value : l \in ContainLists}

InitSpanCalls ==
    /\ pc = "call"
    /\ op = ""
    /\ result = NoResult
    /\ heap = NoObjects
    /\ \/ args \in [kind : {"spans"},
                    contained_start : ContainPoints, contained_end : ContainPoints,
                    container_start : ContainPoints, container_end : ContainPoints]
       \/ args \in [kind : {"occurrences"},
                    span_start : OccurrencePoints, span_end : OccurrencePoints,
                    period_start : OccurrencePoints, period_end : OccurrencePoints]
       \/ args \in [kind : {"string"},
                    span_str : {str \in SpanStrings :
                                   RangeOf(str) \subseteq
                                       {"@", "_", "2022-01-01", "2022-12-31"}},
                    is_default_repr : BOOLEAN]

\* TimeSpan.is_contained_in_span(
\*     TimeSpan(start=contained_start, end=contained_end, span_type=BETWEEN),
\*     TimeSpan(start=container_start, end=container_end, span_type=BETWEEN))
IsContainedInSpan ==
    /\ pc = "call"
    /\ args.kind = "spans"
    /\ pc' = "done"
    /\ op' = "is_contained_in_span"
    /\ result' =
           LET contained(spans, contained_in(_, _)) ==
                   IF spans.contained.raised THEN spans.contained
                   ELSE IF spans.container.raised THEN spans.container
                   ELSE contained_in(spans.contained.value, spans.container.value)
           IN contained([of \in {"contained", "container"} |->
                            TimeSpan(IF of = "contained" THEN args.contained_start
                                     ELSE args.container_start,
                                     "None",
                                     IF of = "contained" THEN args.contained_end
                                     ELSE args.container_end,
                                     "None", "BETWEEN")],
                        is_contained_in_span)
    /\ UNCHANGED <<args, heap>>

\* TimeSpan.time_span_to_span_string(TimeSpan(span_str), is_default_repr):
\* the inner call of the round trip
SpanToString ==
    /\ pc = "call"
    /\ args.kind = "string"
    /\ pc' = "rendered"
    /\ op' = "time_span_to_span_string"
    /\ result' =
           LET rendered_of(time_span) ==
                   IF time_span.raised THEN time_span
                   ELSE time_span_to_span_string(time_span.value,
                                                 args.is_default_repr)
           IN rendered_of(TimeSpanOfString(args.span_str))
    /\ UNCHANGED <<args, heap>>

\* TimeSpan(rendered): the outer call of the round trip, which an exception
\* of the inner call passes through
StringToSpan ==
    /\ pc = "rendered"
    /\ pc' = "done"
    /\ op' = "round_trip"
    /\ result' = IF result.raised THEN result ELSE TimeSpanOfString(result.value)
    /\ UNCHANGED <<args, heap>>

\* TimeSpan.occurrences_in_period(
\*     TimeSpan(start=span_start, end=span_end, span_type=BETWEEN),
\*     period_start, period_end)
SpanOccurrencesInPeriod ==
    /\ pc = "call"
    /\ args.kind = "occurrences"
    /\ pc' = "done"
    /\ op' = "occurrences_in_period"
    /\ result' =
           LET occurred(time_span, occurrences_in(_, _, _)) ==
                   IF time_span.raised THEN time_span
                   ELSE occurrences_in(time_span.value, args.period_start,
                                       args.period_end)
           IN occurred(TimeSpan(args.span_start, "None", args.span_end, "None",
                                "BETWEEN"),
                       span_occurrences_in_period)
    /\ UNCHANGED <<args, heap>>

NextSpanCalls == SpanOccurrencesInPeriod \/ IsContainedInSpan \/ SpanToString \/ StringToSpan

SpecSpanCalls == InitSpanCalls /\ [][NextSpanCalls]_vars

----------------------------------------------------------------------------
(* Properties of the calls on spans *)

\* -1, 0 or 1 as the Point is before lo, from lo through hi, or after hi
BetweenOf(point, lo, hi) ==
    IF Order(InstantOf(point.time_elements), InstantOf(lo.time_elements)) = -1
    THEN -1
    ELSE IF Order(InstantOf(point.time_elements), InstantOf(hi.time_elements)) = 1
    THEN 1
    ELSE 0

\* the call is is_contained_in_span of two spans, each given by two Points
\* of which the first is the earlier, all four comparable and with a year
DefiniteContainCall ==
    /\ pc = "done"
    /\ op = "is_contained_in_span"
    /\ \A p \in {args.contained_start, args.contained_end,
                 args.container_start, args.container_end} :
           /\ HasUnit(p.time_elements, "YR")
           /\ Comparable(p.time_elements, args.container_start.time_elements)
    /\ BetweenOf(args.contained_start, args.contained_end, args.contained_end) = -1
    /\ BetweenOf(args.container_start, args.container_end, args.container_end) = -1

\* C15: with s and e the definite positions of the span's start and end
\* relative to the period, is_contained_in_preiod returns AHEAD for (1, 1),
\* INSIDE for (0, 0), BEHIND for (-1, -1), END_OVERLAPPED for (0, 1),
\* START_OVERLAPPED for (-1, 0) and ERROR for every other pair; a span
\* within the period is INSIDE, one after it AHEAD, one before it BEHIND.
C15_ContainTable ==
    DefiniteContainCall =>
        LET s == BetweenOf(args.contained_start, args.container_start,
                           args.container_end)
            e == BetweenOf(args.contained_end, args.container_start,
                           args.container_end)
        IN /\ ~result.raised
           /\ result.value =
                  CASE s = 1 /\ e = 1 -> "AHEAD"
                    [] s = 0 /\ e = 0 -> "INSIDE"
                    [] s = -1 /\ e = -1 -> "BEHIND"
                    [] s = 0 /\ e = 1 -> "END_OVERLAPPED"
                    [] s = -1 /\ e = 0 -> "START_OVERLAPPED"
                    [] OTHER -> "ERROR"

\* No call of is_contained_in_span on spans built from two Points returns:
\* the construction of the first span already raises.
ContainAlwaysRaises ==
    (pc = "done" /\ op = "is_contained_in_span") => result.raised

----------------------------------------------------------------------------
(* Properties of the round trip of a span string *)

\* a point text with "@" before it or after it
MarkedTexts ==
    UNION {{<<"@", text>>, <<text, "@">>} : text \in {"2022-01-01", "2022-12-31"}}

\* the string is "@P@", or "P_Q", "_P" or "P_" with each of P and Q marked
\* on one side
WellFormedSpanString(span_str) ==
    \/ \E text \in {"2022-01-01", "2022-12-31"} : span_str = <<"@", text, "@">>
    \/ \E first, second \in MarkedTexts :
           span_str \in {first \o <<"_">> \o second, <<"_">> \o first,
                         first \o <<"_">>}

\* the same start, end, start edge, end edge and kind
SameSpan(a, b) ==
    /\ a.start = b.start
    /\ a.end = b.end
    /\ a.start_edge = b.start_edge
    /\ a.end_edge = b.end_edge
    /\ a.type = b.type

\* a round trip of a well-formed span string has been made
WellFormedRoundTrip ==
    /\ pc = "done"
    /\ op = "round_trip"
    /\ WellFormedSpanString(args.span_str)

\* C17: the TimeSpan of a well-formed span string is built, and parsing the
\* string that time_span_to_span_string renders for it yields a TimeSpan
\* with the same start, end, start edge, end edge and kind.
C17_SpanStringRoundTrip ==
    WellFormedRoundTrip =>
        /\ ~result.raised
        /\ ~TimeSpanOfString(args.span_str).raised
        /\ SameSpan(result.value, TimeSpanOfString(args.span_str).value)

\* no round trip yields a TimeSpan: the TimeSpan of the string is never
\* built, so nothing is rendered and nothing parsed again
RoundTripAlwaysRaises ==
    /\ pc = "rendered" => result.raised
    /\ (pc = "done" /\ op = "round_trip") => result.raised

----------------------------------------------------------------------------
(* Properties of start_point and end_point *)

\* the calendar minimum of a unit
MinimumOf(unit) == IF unit \in {"MH", "DY", "WK", "WY"} THEN 1 ELSE 0

\* the calendar maximum of a unit in a Point already filled above it: the
\* last month, the last day of the month (29 for February without a year
\* or in a leap year), the last week of the ISO year, weekday 7, hour 23,
\* minute and second 59
MaximumOf(unit, year, month) ==
    CASE unit = "MH" -> 12
      [] unit = "DY" -> MonthLength(year, month)
      [] unit = "WK" -> IF year /= -1 /\ ~LongIsoYear(year) THEN 52 ELSE 53
      [] unit = "WY" -> 7
      [] unit = "HR" -> 23
      [] unit \in {"ME", "SD"} -> 59

\* the units of the Point and the units under them
FilledUnits(point) ==
    UnitsOf(point.time_elements)
    \cup RangeOf(find_ordered_elements_over_under_units(point.time_elements).U)

\* C18: for a valid Point p, p.start_point keeps p's units and fills each
\* under unit with the calendar minimum, and p.end_point keeps p's units
\* and fills each under unit with the calendar maximum: hour 23, minute 59,
\* second 59, the last day of p's month, weekday 7, the last month or week.
C18_EdgeFill ==
    (pc = "done" /\ op \in {"start_point", "end_point"}) =>
        /\ ~result.raised
        /\ UnitsOf(result.value.time_elements) = FilledUnits(args.point)
        /\ \A u \in FilledUnits(args.point) :
               ValueIn(result.value.time_elements, u) =
                   IF HasUnit(args.point.time_elements, u)
                   THEN ValueIn(args.point.time_elements, u)
                   ELSE IF op = "start_point" THEN MinimumOf(u)
                   ELSE MaximumOf(u, UnitValue(args.point, "YR"),
                                  IF HasUnit(args.point.time_elements, "MH")
                                  THEN UnitValue(args.point, "MH") ELSE 12)

\* No read of start_point or end_point returns: the six filled values and
\* is_iso are seven positional arguments, units_vlaues_to_ordered_elements
\* takes eight.
EdgePointAlwaysRaises ==
    (pc = "done" /\ op \in {"start_point", "end_point"})
        => (result.raised /\ result.exc = "TypeError")

----------------------------------------------------------------------------
(* Properties of the exceptions of TimePoint construction *)

\* every element of the list is one TimeElement accepts
IndividuallyValid(elements) ==
    \A k \in 1..Len(elements) :
        validate_value(elements[k].unit, elements[k].value)

\* C30: for every list of individually valid TimeElements, TimePoint
\* construction returns a Point or raises TimePointArgumentError or
\* TimePointCreationError; no other exception escapes the constructor, not
\* for an ISO list that holds week 53 without a weekday either.
C30_OnlyPointErrors ==
    (pc = "done" /\ op = "TimePoint" /\ IndividuallyValid(args.elements))
    => (~result.raised
        \/ result.exc \in {"TimePointArgumentError", "TimePointCreationError"})

\* the exception that escapes is the TypeError of week 53 without a
\* weekday, and it escapes for every such ISO list that is ordered
OnlyWeek53TypeErrorEscapes ==
    (pc = "done" /\ op = "TimePoint" /\ result.raised
     /\ result.exc \notin {"TimePointArgumentError", "TimePointCreationError"})
    => /\ result.exc = "TypeError"
       /\ ValueIn(args.elements, "WK") = 53
       /\ ~HasUnit(args.elements, "WY")

----------------------------------------------------------------------------
(* Properties of available_years *)

\* the Point is the leap day: month 2 with day 29
NeedsLeapDay(point) ==
    /\ ValueIn(point.time_elements, "MH") = 2
    /\ ValueIn(point.time_elements, "DY") = 29

\* the Point is an ISO point of week 53
NeedsWeek53(point) ==
    /\ is_iso(point)
    /\ ValueIn(point.time_elements, "WK") = 53

\* C26: available_years is the 53-week years of the supported range for an
\* ISO point of week 53, the leap years of the supported range for a Point
\* that is the leap day, and None for every other Point.
C26_AvailableYears ==
    (pc = "done" /\ op = "available_years")
    => result.value =
           IF NeedsWeek53(args.point)
           THEN Years({y \in START_YEAR..END_YEAR : LongIsoYear(y)})
           ELSE IF NeedsLeapDay(args.point)
           THEN Years({y \in START_YEAR..END_YEAR : isleap(y)})
           ELSE AllYears

\* what the code returns for a Point that needs neither: the leap years
\* whenever the Point has a year and that year is a leap year, else None
YearAloneDecidesLeap ==
    (pc = "done" /\ op = "available_years"
     /\ ~NeedsWeek53(args.point) /\ ~NeedsLeapDay(args.point))
    => result.value =
           IF /\ HasUnit(args.point.time_elements, "YR")
              /\ isleap(ValueIn(args.point.time_elements, "YR"))
           THEN Years({y \in START_YEAR..END_YEAR : isleap(y)})
           ELSE AllYears

----------------------------------------------------------------------------
(* Properties of start_point_in_scope and end_point_in_scope *)

\* C25: for every valid Point, Gregorian or ISO and of any scope,
\* start_point_in_scope and end_point_in_scope evaluate without raising
\* and are themselves valid Points.
C25_ScopePointsExist ==
    (pc = "done" /\ op \in {"start_point_in_scope", "end_point_in_scope"})
    => /\ ~result.raised
       /\ ~TimePoint(result.value.time_elements).raised

\* the reads that raise are those of end_point_in_scope on an ISO point
\* that has a year or starts right below the year: the last element list
\* then starts with END_YEAR and week 53, and END_YEAR has 52 weeks
EndInScopeRaisesFromIsoYear ==
    (pc = "done" /\ op \in {"start_point_in_scope", "end_point_in_scope"})
    => (result.raised
        <=> /\ op = "end_point_in_scope"
            /\ is_iso(args.point)
            /\ scope_index(args.point) = 0)

\* and the exception is TimePointCreationError
EndInScopeRaisesCreationError ==
    (pc = "done" /\ op \in {"start_point_in_scope", "end_point_in_scope"}
     /\ result.raised)
    => result.exc = "TimePointCreationError"

----------------------------------------------------------------------------
(* Properties of the comparison of points without a year *)

\* the elements placed in year y
InYear(y, elements) == <<TimeElement("YR", y)>> \o elements

\* two comparable Gregorian lists that start at the month were compared
YearlessGregorianCompared ==
    /\ pc = "done"
    /\ op = "compare_two_ordered_comparable_elements"
    /\ Comparable(args.elements1, args.elements2)
    /\ args.elements1[1].unit = "MH"
    /\ args.elements2[1].unit = "MH"

\* C22: comparing two Gregorian points that both lack a year returns a
\* definite -1, 0 or 1, the order of the two points within one year, not
\* a per-year map.
C22_YearlessDefinite ==
    YearlessGregorianCompared
    => Returned(Order(InstantOf(InYear(2000, args.elements1)),
                      InstantOf(InYear(2000, args.elements2))))

----------------------------------------------------------------------------
(* Properties of the ranges of the occurrence generator *)

\* the values an interior slice of the generator runs through were asked
\* for: unit_values_to_end_scope from 1, for the month being expanded
InteriorRangeRead ==
    /\ pc = "done"
    /\ op = "unit_values_to_end_scope"
    /\ args.start_value = 1

\* C23: on an interior slice a dimension ranges over the unit's full
\* domain: all months 1..12, and for days every day 1..N of the month
\* being expanded, N the length of that month (29 for February only in a
\* leap year).
C23_InteriorFullRange ==
    InteriorRangeRead
    => /\ args.unit_name = "MH" => result.value = range(1, 13)
       /\ (args.unit_name = "DY" /\ args.month \in 1..12)
          => \E year \in {2023, 2024} :
                 result.value = range(1, days_in_month(year, args.month) + 1)

\* the days of an interior slice stop one short of the maximum of
\* day_allow_vals: the last day of the month, and 29 February, never occur
InteriorDaysStopShort ==
    (InteriorRangeRead /\ args.unit_name = "DY" /\ args.month \in 1..12)
    => result.value = range(1, days_in_month(2024, args.month))

\* the slices of current_range in create_timepoints for days: the first
\* and the last slice are cut from the one-entry list [31]
ClippedDaysFromThirtyOne ==
    \A bound \in 1..31 :
        /\ current_range("DY", bound, bound, 3, TRUE, TRUE, FALSE)
               = (IF bound = 1 THEN <<31>> ELSE <<>>)
        /\ current_range("DY", bound, bound, 3, TRUE, FALSE, TRUE) = <<31>>

----------------------------------------------------------------------------
(* Properties of the occurrences of a span *)

\* the call is TimeSpan.occurrences_in_period of a span from one pattern of
\* day and time to another, as in test_occurrences_in_period_no_occurrences,
\* in a period whose bounds hold a year and a month, the start's not after
\* the end's
MonthlySpanCall ==
    /\ pc = "done"
    /\ op = "occurrences_in_period"
    /\ args.kind = "occurrences"
    /\ over_units(args.span_start) = <<"YR", "MH">>
    /\ over_units(args.span_end) = <<"YR", "MH">>
    /\ UnitValue(args.span_start, "DY") < UnitValue(args.span_end, "DY")
    /\ \A bound \in {args.period_start, args.period_end} :
           {"YR", "MH"} \subseteq RangeOf(units(bound))
    /\ UnitValue(args.period_start, "YR") = UnitValue(args.period_end, "YR")
    /\ UnitValue(args.period_start, "MH") < UnitValue(args.period_end, "MH")

\* C28: TimeSpan.occurrences_in_period pairs the occurrences of the span's
\* start pattern and of its end pattern index for index and returns each
\* pair as a Between TimeSpan with the original edges: for a span from
\* day 1 to day 11 of every month, one span per month of the period, from
\* that month's occurrence of the start to that month's occurrence of the
\* end.
C28_SpanOccurrences ==
    MonthlySpanCall =>
        /\ ~result.raised
        /\ ~result.value.none
        /\ LET months == MonthsThrough(UnitValue(args.period_start, "YR"),
                                       UnitValue(args.period_start, "MH"),
                                       UnitValue(args.period_end, "YR"),
                                       UnitValue(args.period_end, "MH"))
               spans == result.value.occurrences
           IN /\ Len(spans) = Len(months)
              /\ \A k \in 1..Len(months) :
                     /\ spans[k].type = "BETWEEN"
                     /\ spans[k].start_edge = "START"
                     /\ spans[k].end_edge = "END"
                     /\ SubSeq(values(spans[k].start), 1,
                               2 + Len(values(args.span_start)))
                            = months[k] \o values(args.span_start)
                     /\ SubSeq(values(spans[k].end), 1,
                               2 + Len(values(args.span_end)))
                            = months[k] \o values(args.span_end)

\* No call of TimeSpan.occurrences_in_period on a span built from two
\* Points returns: the construction of the span raises
\* TimeSpanCreateArgumentError.
SpanOccurrencesNeverReturned ==
    (pc = "done" /\ op = "occurrences_in_period")
        => (result.raised /\ result.exc = "TimeSpanCreateArgumentError")

----------------------------------------------------------------------------
(* Objects under assignment and the edit functions of utilityfuncs.py:
   TimeElements, the list of them the caller holds, and the TimePoint built
   from that list *)

\* the most TimeElement objects the caller creates, those of its list
\* included
MaxElements == 4

ObjectUnits == {"YR", "MH", "DY"}

\* the values passed to TimeElement and assigned to element_value
ObjectValues == {29, 32, 2023}

\* the lists the caller starts from
ObjectLists ==
    {<<TimeElement("YR", 2023), TimeElement("MH", 2), TimeElement("DY", 2)>>,
     <<TimeElement("DY", 2), TimeElement("MH", 2)>>}

\* the TimeElements a list of ids refers to
elements_of(objects, ids) == [k \in DOMAIN ids |-> objects.elements[ids[k]]]

\* the list objects at hand: the caller's own list and, once the TimePoint
\* exists, the list its time_elements property returns, which is the
\* TimePoint's own _time_elements
Lists == {"input"} \cup (IF heap.point.created THEN {"point"} ELSE {})

list_of(objects, list) ==
    IF list = "input" THEN objects.input ELSE objects.point.time_elements

with_list(objects, list, ids) ==
    IF list = "input" THEN [objects EXCEPT !.input = ids]
    ELSE [objects EXCEPT !.point.time_elements = ids]

\* ValueError of is_ordered_elements re-raised with the prefix of the caller
reraised(ordered, prefix) ==
    IF ordered.exc = "ValueError" THEN Raise("ValueError", prefix) ELSE ordered

\* the element_value setter on the TimeElement id: the objects afterwards
\* and the outcome
set_element_value(objects, id, value) ==
    IF validate_value(objects.elements[id].unit, value)
    THEN [objects |-> [objects EXCEPT !.elements[id].value = value],
          outcome |-> Ok(value)]
    ELSE [objects |-> objects,
          outcome |-> Raise("ValueError", "Error validating value")]

InitObjects ==
    /\ pc = "call"
    /\ op = ""
    /\ args = <<>>
    /\ result = NoResult
    /\ \E elements \in ObjectLists :
           heap = [elements |-> elements,
                   input |-> [k \in DOMAIN elements |-> k],
                   point |-> NoPointObject]

\* TimeElement(unit_name, value)
CreateElement ==
    /\ Len(heap.elements) < MaxElements
    /\ \E unit_name \in ObjectUnits, value \in ObjectValues :
           /\ args' = [unit_name |-> unit_name, value |-> value]
           /\ IF validate_value(unit_name, value)
              THEN /\ heap' = [heap EXCEPT !.elements =
                                   Append(@, TimeElement(unit_name, value))]
                   /\ result' = Ok(Len(heap.elements) + 1)
              ELSE /\ heap' = heap
                   /\ result' = Raise("ValueError", "Error validating value")
    /\ pc' = "done"
    /\ op' = "TimeElement"

\* element.element_value = value, on any TimeElement at hand
AssignElementValue ==
    /\ \E id \in DOMAIN heap.elements, value \in ObjectValues :
           /\ args' = [element |-> id, value |-> value]
           /\ heap' = set_element_value(heap, id, value).objects
           /\ result' = set_element_value(heap, id, value).outcome
    /\ pc' = "done"
    /\ op' = "element_value"

\* TimePoint(input): the TimePoint keeps the sorted list, a new list of the
\* caller's own TimeElements, with the values of the units and is_leap as
\* they are at this moment
CreatePointObject ==
    /\ ~heap.point.created
    /\ args' = [telements |-> elements_of(heap, heap.input)]
    /\ LET created(point) ==
               IF point.raised
               THEN /\ heap' = heap
                    /\ result' = point
               ELSE /\ heap' = [heap EXCEPT !.point =
                            [created |-> TRUE,
                             time_elements |->
                                 [k \in DOMAIN point.value.time_elements |->
                                     heap.input[SetMin({i \in DOMAIN heap.input :
                                         heap.elements[heap.input[i]].unit =
                                             point.value.time_elements[k].unit})]],
                             is_leap |-> is_elements_leap(point.value.time_elements),
                             unit_values |->
                                 [u \in UNITS |->
                                     get_value_by_unit_from_elements(
                                         u, point.value.time_elements)],
                             point_type |-> "START"]]
                    /\ result' = Ok(point.value.time_elements)
       IN created(TimePoint(elements_of(heap, heap.input)))
    /\ pc' = "done"
    /\ op' = "TimePoint"

\* point.point_type = value
AssignPointType ==
    /\ heap.point.created
    /\ \E value \in {"START", "END"} :
           /\ args' = [value |-> value]
           /\ heap' = [heap EXCEPT !.point.point_type = value]
    /\ result' = NoResult
    /\ pc' = "done"
    /\ op' = "point_type"

\* add_element_to_ordered_elements(element_added, elements)
AddElementToOrderedElements ==
    /\ \E list \in Lists, id \in DOMAIN heap.elements :
           /\ args' = [element |-> id, elements |-> list]
           /\ result' = add_element_to_ordered_elements(
                            heap.elements[id],
                            elements_of(heap, list_of(heap, list)))
    /\ heap' = heap
    /\ pc' = "done"
    /\ op' = "add_element_to_ordered_elements"

\* remove_element_from_ordered_elements(element_remove, elements):
\* elements.remove(element_remove) acts on the list passed in, and
\* result_elements is that list
RemoveElementFromOrderedElements ==
    /\ \E list \in Lists, id \in DOMAIN heap.elements :
           LET ids == list_of(heap, list)
               elements == elements_of(heap, ids)
               element_remove == heap.elements[id]
               index == SetMin({k \in DOMAIN elements : elements[k] = element_remove})
               result_ids == SubSeq(ids, 1, index - 1)
                                 \o SubSeq(ids, index + 1, Len(ids))
               removed(argument, ordered(_)) ==
                   IF argument.raised
                   THEN /\ heap' = heap
                        /\ result' = reraised(argument, "arguments elements")
                   ELSE IF element_remove \notin RangeOf(elements)
                   THEN /\ heap' = heap
                        /\ result' = Raise("ValueError", "is not in the elements")
                   ELSE IF element_remove /= elements[1]
                           /\ element_remove /= elements[Len(elements)]
                   THEN /\ heap' = heap
                        /\ result' = Raise("ValueError", "must be first ot last unit")
                   ELSE /\ heap' = with_list(heap, list, result_ids)
                        /\ result' =
                               IF result_ids = <<>>
                               THEN Raise("ValueError", "must have at least one element")
                               ELSE IF ordered(elements_of(heap, result_ids)).raised
                               THEN reraised(ordered(elements_of(heap, result_ids)),
                                             "result elements")
                               ELSE Ok(elements_of(heap, result_ids))
           IN /\ args' = [element |-> id, elements |-> list]
              /\ removed(is_ordered_elements(elements), is_ordered_elements)
    /\ pc' = "done"
    /\ op' = "remove_element_from_ordered_elements"

\* remove_unit_from_ordered_elements(unit_removed, elements)
RemoveUnitFromOrderedElements ==
    /\ \E list \in Lists, unit_removed \in ObjectUnits :
           LET elements == elements_of(heap, list_of(heap, list))
               result_elements ==
                   SelectSeq(elements, LAMBDA el : el.unit /= unit_removed)
               removed(argument, ordered(_)) ==
                   IF argument.raised THEN reraised(argument, "argument elements")
                   ELSE IF ~HasUnit(elements, unit_removed)
                   THEN Raise("ValueError", "is not in the elements")
                   ELSE IF unit_removed /= elements[1].unit
                           /\ unit_removed /= elements[Len(elements)].unit
                   THEN Raise("ValueError", "must be first or last unit")
                   ELSE IF result_elements = <<>>
                   THEN Raise("ValueError", "must have at least one element")
                   ELSE IF ordered(result_elements).raised
                   THEN reraised(ordered(result_elements), "result elements")
                   ELSE Ok(result_elements)
           IN /\ args' = [unit_removed |-> unit_removed, elements |-> list]
              /\ result' = removed(is_ordered_elements(elements), is_ordered_elements)
    /\ heap' = heap
    /\ pc' = "done"
    /\ op' = "remove_unit_from_ordered_elements"

\* update_element_in_ordered_elements(element_updated, elements)
UpdateElementInOrderedElements ==
    /\ \E list \in Lists, id \in DOMAIN heap.elements :
           LET elements == elements_of(heap, list_of(heap, list))
               element_updated == heap.elements[id]
               index == SetMin({k \in DOMAIN elements :
                                   elements[k].unit = element_updated.unit})
               updated_elements == [elements EXCEPT ![index] = element_updated]
               updated(argument, ordered(_)) ==
                   IF argument.raised THEN reraised(argument, "argument elements")
                   ELSE IF element_updated \notin RangeOf(elements)
                   THEN Raise("ValueError", "is not in the elements")
                   ELSE IF ordered(updated_elements).raised
                   THEN reraised(ordered(updated_elements), "updated elements")
                   ELSE Ok(updated_elements)
           IN /\ args' = [element |-> id, elements |-> list]
              /\ result' = updated(is_ordered_elements(elements), is_ordered_elements)
    /\ heap' = heap
    /\ pc' = "done"
    /\ op' = "update_element_in_ordered_elements"

\* update_unit_in_ordered_elements(unit_updated, value_updated, elements):
\* updated_elements is a copy of the list, of the same TimeElement objects,
\* and the value is assigned to the object before the updated list is
\* checked
UpdateUnitInOrderedElements ==
    /\ \E list \in Lists, unit_updated \in ObjectUnits, value_updated \in ObjectValues :
           LET ids == list_of(heap, list)
               elements == elements_of(heap, ids)
               index == SetMin({k \in DOMAIN elements :
                                   elements[k].unit = unit_updated})
               updated(argument, assigned(_, _, _), ordered(_)) ==
                   IF argument.raised
                   THEN /\ heap' = heap
                        /\ result' = reraised(argument, "argument elements")
                   ELSE IF ~HasUnit(elements, unit_updated)
                   THEN /\ heap' = heap
                        /\ result' = Raise("ValueError", "is not in the list")
                   ELSE /\ heap' = assigned(heap, ids[index], value_updated).objects
                        /\ result' =
                               IF assigned(heap, ids[index], value_updated).outcome.raised
                               THEN assigned(heap, ids[index], value_updated).outcome
                               ELSE IF ordered(elements_of(heap', ids)).raised
                               THEN reraised(ordered(elements_of(heap', ids)),
                                             "updated elements")
                               ELSE Ok(elements_of(heap', ids))
           IN /\ args' = [unit_updated |-> unit_updated,
                          value_updated |-> value_updated, elements |-> list]
              /\ updated(is_ordered_elements(elements), set_element_value,
                         is_ordered_elements)
    /\ pc' = "done"
    /\ op' = "update_unit_in_ordered_elements"

NextElements == CreateElement \/ AssignElementValue

SpecElements == InitObjects /\ [][NextElements]_vars

NextObjects ==
    \/ AssignElementValue
    \/ CreatePointObject
    \/ AssignPointType
    \/ AddElementToOrderedElements
    \/ RemoveElementFromOrderedElements
    \/ RemoveUnitFromOrderedElements
    \/ UpdateElementInOrderedElements
    \/ UpdateUnitInOrderedElements

SpecObjects == InitObjects /\ [][NextObjects]_vars

----------------------------------------------------------------------------
(* Properties of TimeElement objects *)

\* the value lies in the domain of the unit: the years START_YEAR through
\* END_YEAR, the months 1..12, the days 1..31, the weeks 1..53, the
\* weekdays 1..7, the hours 0..23, the minutes and seconds 0..59
InDomain(unit_name, value) ==
    CASE unit_name = "YR" -> value \in START_YEAR..END_YEAR
      [] unit_name = "MH" -> value \in 1..12
      [] unit_name = "DY" -> value \in 1..31
      [] unit_name = "WK" -> value \in 1..53
      [] unit_name = "WY" -> value \in 1..7
      [] unit_name = "HR" -> value \in 0..23
      [] unit_name \in {"ME", "SD"} -> value \in 0..59

\* a step that leaves every TimeElement with a value of its domain, and
\* in which a creation or an assignment with a value outside the domain
\* raises ValueError, creates nothing and leaves the values as they were
ElementStep ==
    /\ \A id \in DOMAIN heap'.elements :
           InDomain(heap'.elements[id].unit, heap'.elements[id].value)
    /\ (op' = "TimeElement" /\ ~InDomain(args'.unit_name, args'.value))
           => /\ result'.raised
              /\ result'.exc = "ValueError"
              /\ heap' = heap
    /\ (op' = "element_value"
            /\ ~InDomain(heap.elements[args'.element].unit, args'.value))
           => /\ result'.raised
              /\ result'.exc = "ValueError"
              /\ heap'.elements[args'.element] = heap.elements[args'.element]
              /\ heap' = heap

\* C21: after any sequence of TimeElement creations and element_value
\* assignments every TimeElement holds a value of its unit's domain; a
\* creation or an assignment with a value outside the domain raises
\* ValueError, and the assignment leaves the previous value in place.
C21_ElementValueInDomain == [][ElementStep]_vars

\* an assignment of a value outside the domain was refused, after a
\* TimeElement was created and an assignment changed an element of the list
C21_Witness ==
    /\ pc = "done"
    /\ op = "element_value"
    /\ result.raised
    /\ result.exc = "ValueError"
    /\ ~InDomain(heap.elements[args.element].unit, args.value)
    /\ \E elements \in ObjectLists :
           /\ Len(heap.elements) > Len(elements)
           /\ \A id \in DOMAIN elements : heap.elements[id].unit = elements[id].unit
           /\ \E id \in DOMAIN elements :
                  heap.elements[id].value /= elements[id].value

----------------------------------------------------------------------------
(* Properties of the TimePoint object and of the caller's list *)

\* the TimeElements the TimePoint holds now
PointElements == elements_of(heap, heap.point.time_elements)

\* the element list of the TimePoint is a valid ordered list, and the
\* values the accessors year, month, week, weekday, day, hour, minute and
\* second return, and is_leap, are those of the element list
PointConsistent ==
    /\ ValidOrdered(PointElements)
    /\ \A u \in UNITS : heap.point.unit_values[u] = ValueIn(PointElements, u)
    /\ heap.point.is_leap = is_elements_leap(PointElements)

\* C24: in every state reached by constructing a Point and then reading
\* time_elements, assigning element_value on a returned TimeElement,
\* assigning point_type or running the edit functions on the returned
\* list, the Point's element list is a valid ordered list and the Point's
\* accessors equal the values held in that list.
C24_PointStaysConsistent == heap.point.created => PointConsistent

\* the TimePoint is consistent when its constructor returns
ConsistentWhenConstructed ==
    (pc = "done" /\ op = "TimePoint" /\ ~result.raised) => PointConsistent

\* assigning point_type changes nothing but the point type
PointTypeStep ==
    op' = "point_type"
        => heap' = [heap EXCEPT !.point.point_type = heap'.point.point_type]

PointTypeOnlyTagged == [][PointTypeStep]_vars

EditFunctions ==
    {"add_element_to_ordered_elements", "remove_element_from_ordered_elements",
     "remove_unit_from_ordered_elements", "update_element_in_ordered_elements",
     "update_unit_in_ordered_elements"}

\* a call of an edit function leaves the list passed to it, and every
\* TimeElement, as they were
EditStep ==
    op' \in EditFunctions
        => /\ list_of(heap', args'.elements) = list_of(heap, args'.elements)
           /\ heap'.elements = heap.elements

\* C29: add_element_to_ordered_elements,
\* remove_element_from_ordered_elements, remove_unit_from_ordered_elements,
\* update_element_in_ordered_elements and update_unit_in_ordered_elements
\* leave the caller's input list and every TimeElement in it unchanged,
\* both when they return the edited list and when they raise ValueError.
C29_EditsLeaveInput == [][EditStep]_vars

\* the three functions that work on a copy leave every object as it was
CopyingEditStep ==
    op' \in {"add_element_to_ordered_elements",
             "remove_unit_from_ordered_elements",
             "update_element_in_ordered_elements"}
        => heap' = heap

CopyingEditsLeaveInput == [][CopyingEditStep]_vars

\* remove_element_from_ordered_elements takes the element out of the list
\* passed to it whenever it gets as far as the removal, and
\* update_unit_in_ordered_elements assigns to the TimeElement of that list
\* whenever the value is in the unit's domain, whether or not the call then
\* raises
InPlaceEditStep ==
    /\ (op' = "remove_element_from_ordered_elements"
            /\ (~result'.raised
                   \/ result'.msg \in {"must have at least one element",
                                       "result elements"}))
           => /\ Len(list_of(heap', args'.elements))
                     = Len(list_of(heap, args'.elements)) - 1
              /\ heap'.elements = heap.elements
    /\ (op' = "update_unit_in_ordered_elements"
            /\ (~result'.raised \/ result'.msg = "updated elements"))
           => /\ list_of(heap', args'.elements) = list_of(heap, args'.elements)
              /\ ValueIn(elements_of(heap', list_of(heap', args'.elements)),
                         args'.unit_updated) = args'.value_updated

InPlaceEdits == [][InPlaceEditStep]_vars

====
